---- MODULE Spec2Model ----
(***************************************************************************)
(* A model of the TCP codec of snort3 (src/src/codecs/ip/cd_tcp.cc):       *)
(* TcpCodec::decode, DecodeTCPOptions, OptLenValidate, TCPMiscTests,       *)
(* TcpCodec::encode and the retained checksum kernel in_chksum_tcp.        *)
(*                                                                         *)
(* Memory is modelled as bytes.  A buffer is a record [bytes, zpad]: the   *)
(* explicit leading bytes followed by zpad zero bytes, so that a segment   *)
(* longer than 65535 bytes can be written down; its length is              *)
(* Len(bytes) + zpad.  Offsets into a buffer count from 0 as in the code.  *)
(***************************************************************************)
EXTENDS Integers, Sequences, FiniteSets, TLC

VARIABLES
    pc,        \* position of the running call: "idle", a step label, "done"
    host,      \* byte order of the build: "LE" or "BE"
    raw,       \* raw_pkt / raw_len of the running decode: [bytes, zpad]
    ip,        \* what p->ip_api answers for the carrying IP layer
    cfg,       \* ScTcpChecksums / ScInlineMode / ScTcpChecksumDrops
    p,         \* the Packet fields the codec reads and writes
    p0,        \* the Packet as it was when the running call began
    lyr_len,   \* decode's uint16_t& lyr_len out-parameter
    ret,       \* the return value of the finished call
    events,    \* decoder events in emission order, each with p->tcph as seen then
    read_hi,   \* one past the highest raw offset read so far (0: nothing read)
    drop,      \* whether Active_DropPacket() was called
    w,         \* the frame of the running DecodeTCPOptions
    val,       \* the last direct OptLenValidate call: arguments and results
    ck,        \* the last direct in_chksum_tcp call: arguments and result
    enc,       \* the last encode call: arguments, output buffer, result
    upd,       \* the last update call: arguments, header after it, result
    mc         \* SynToMulticastDstIp and the threads that touch it

vars == << pc, host, raw, ip, cfg, p, p0, lyr_len, ret, events, read_hi, drop,
           w, val, ck, enc, upd, mc >>

----------------------------------------------------------------------------
(* Program constants *)

TCP_HEADER_LEN == 20
TCP_OPTLENMAX == 40
OPT_TRUNC == -1
OPT_BADLEN == -2
NULL == -1

TH_FIN == 1
TH_SYN == 2
TH_RST == 4
TH_PUSH == 8
TH_ACK == 16
TH_URG == 32
TH_ECE == 64
TH_CWR == 128
TH_NORESERVED == 63

IPPROTO_TCP == 6

(* Bounds of the model *)
MaxRegion == 4        \* longest enumerated run of option bytes

----------------------------------------------------------------------------
(* Arithmetic on machine integers *)

U8(x) == x % 256
U16(x) == x % 65536

(* A 32-bit unsigned value is the pair << high 16 bits, low 16 bits >>: the *)
(* integers of TLC stop short of 2^32.                                      *)
W32(x) == << x \div 65536, x % 65536 >>
Add32(v, n) == << (v[1] + ((v[2] + n) \div 65536)) % 65536, (v[2] + n) % 65536 >>
Sum32(a, b) == Add32(<< (a[1] + b[1]) % 65536, a[2] >>, b[2])

RECURSIVE BitAnd(_, _)
BitAnd(a, b) ==
    IF a = 0 \/ b = 0 THEN 0
    ELSE (IF a % 2 = 1 /\ b % 2 = 1 THEN 1 ELSE 0) + 2 * BitAnd(a \div 2, b \div 2)

Max(a, b) == IF a > b THEN a ELSE b
Min(a, b) == IF a < b THEN a ELSE b

(* Buffers *)
BufLen(b) == Len(b.bytes) + b.zpad
ByteAt(b, i) == IF i < Len(b.bytes) THEN b.bytes[i + 1] ELSE 0
Buf(bs) == [bytes |-> bs, zpad |-> 0]

(* A 16-bit / 32-bit object at offset i as the host loads it. *)
HostWord(b0, b1) == IF host = "LE" THEN b0 + 256 * b1 ELSE 256 * b0 + b1
Load16(b, i) == HostWord(ByteAt(b, i), ByteAt(b, i + 1))
Load32(b, i) ==
    IF host = "LE"
    THEN << ByteAt(b, i + 2) + 256 * ByteAt(b, i + 3), ByteAt(b, i) + 256 * ByteAt(b, i + 1) >>
    ELSE << 256 * ByteAt(b, i) + ByteAt(b, i + 1), 256 * ByteAt(b, i + 2) + ByteAt(b, i + 3) >>
(* The bytes a 16-bit host value occupies in memory. *)
Store16(x) == IF host = "LE" THEN << x % 256, x \div 256 >> ELSE << x \div 256, x % 256 >>

Store32(v) ==
    IF host = "LE" THEN << v[2] % 256, v[2] \div 256, v[1] % 256, v[1] \div 256 >>
    ELSE << v[1] \div 256, v[1] % 256, v[2] \div 256, v[2] % 256 >>

ntohs(x) == IF host = "LE" THEN (x % 256) * 256 + (x \div 256) ELSE x
htons(x) == ntohs(x)
ntohl(v) == IF host = "LE" THEN << ntohs(v[2]), ntohs(v[1]) >> ELSE v
htonl(x) == ntohl(x)

----------------------------------------------------------------------------
(* Checksum kernel *)

(* The sum modulo 2^32 of the n host-order 16-bit words of b from byte     *)
(* offset `from`, taken by halves: 32-bit addition is associative, and the  *)
(* order in which the code's loops add the words does not show.             *)
RECURSIVE RangeSum(_, _, _)
RangeSum(b, from, n) ==
    IF n = 1 THEN W32(Load16(b, from))
    ELSE LET left  == RangeSum(b, from, n \div 2)
             right == RangeSum(b, from + 2 * (n \div 2), n - (n \div 2))
         IN  Sum32(left, right)

(* The 32-bit accumulator cksum after adding the n words of b from byte     *)
(* offset `from`.  Words that lie wholly in the zero padding add nothing.   *)
SumWords(cksum, b, from, n) ==
    LET explicit == (Len(b.bytes) - from + 1) \div 2
        m        == Min(n, explicit)
    IN  IF m <= 0 THEN cksum
        ELSE Sum32(cksum, RangeSum(b, from, m))

(* cksum = (cksum >> 16) + (cksum & 0xffff); cksum += (cksum >> 16);        *)
(* return (unsigned short)(~cksum)                                          *)
FoldComplement_not_complemented(cksum) ==
    U16(cksum[1] + cksum[2] + ((cksum[1] + cksum[2]) \div 65536))
FoldComplement(cksum) ==
    LET c1 == cksum[1] + cksum[2]
        c2 == c1 + (c1 \div 65536)
    IN  65535 - U16(c2)

(* The kernel over a pseudoheader of hwords words: 6 words of the 12-byte   *)
(* IPv4 pseudoheader, 18 words of the 36-byte IPv6 one.  The three unrolled *)
(* loops add the words after the 20-byte header one after the other; an odd *)
(* last byte is placed in the first byte of a zeroed 16-bit object.         *)
ChksumKernel(ph, hwords, d, dlen) ==
    LET rest  == dlen - 20
        nfull == IF rest > 1 THEN rest \div 2 ELSE 0
        odd   == IF rest - 2 * nfull = 1
                 THEN HostWord(ByteAt(d, 20 + 2 * nfull), 0) ELSE 0
        hsum  == SumWords(W32(0), ph, 0, hwords)
        dsum  == SumWords(hsum, d, 0, 10)
    IN  FoldComplement(Add32(SumWords(dsum, d, 20, nfull), odd))

in_chksum_tcp(ph, d, dlen) == ChksumKernel(ph, 6, d, dlen)
in_chksum_tcp6(ph, d, dlen) == ChksumKernel(ph, 18, d, dlen)

(* checksum::tcp_cksum(buf, len, &ph): the kernel the codec calls.          *)
tcp_cksum(d, dlen, ph) ==
    IF Len(ph.bytes) = 12 THEN in_chksum_tcp(ph, d, dlen) ELSE in_chksum_tcp6(ph, d, dlen)

(* checksum::Pseudoheader {sip, dip, zero, protocol, len} and               *)
(* checksum::Pseudoheader6 {sip, dip, zero, protocol, len} as laid out in   *)
(* memory; len is stored by htons, that is most significant byte first.     *)
Pseudoheader(sip, dip, protocol, len16) ==
    Buf(sip \o dip \o << 0, protocol, len16 \div 256, len16 % 256 >>)

----------------------------------------------------------------------------
(* Option validator *)

(* Variants of the validator that err on the accepted options only: one    *)
(* reports the payload length as the skip, one points data at the length    *)
(* byte.                                                                    *)
Accepts(b, option_ptr, end, len_ptr, expected_len) ==
    /\ len_ptr # NULL
    /\ expected_len \notin {0, 1}
    /\ ByteAt(b, len_ptr) >= 2
    /\ option_ptr + ByteAt(b, len_ptr) <= end
    /\ expected_len > 1 => ByteAt(b, len_ptr) = expected_len
Rejected == [code |-> OPT_BADLEN, byte_skip |-> 0, wrote |-> FALSE,
             len |-> 0, data |-> NULL, read_hi |-> 0]
OptLenValidate_skip_payload(b, option_ptr, end, len_ptr, expected_len) ==
    IF ~Accepts(b, option_ptr, end, len_ptr, expected_len) THEN Rejected
    ELSE [code |-> 0, byte_skip |-> ByteAt(b, len_ptr) - 2, wrote |-> TRUE,
          len |-> U8(ByteAt(b, len_ptr) - 2),
          data |-> IF ByteAt(b, len_ptr) = 2 THEN NULL ELSE option_ptr + 2,
          read_hi |-> len_ptr + 1]
OptLenValidate_data_at_len(b, option_ptr, end, len_ptr, expected_len) ==
    IF ~Accepts(b, option_ptr, end, len_ptr, expected_len) THEN Rejected
    ELSE [code |-> 0, byte_skip |-> ByteAt(b, len_ptr), wrote |-> TRUE,
          len |-> U8(ByteAt(b, len_ptr) - 2),
          data |-> IF ByteAt(b, len_ptr) = 2 THEN NULL ELSE option_ptr + 1,
          read_hi |-> len_ptr + 1]

OptLenValidate_end_exclusive(b, option_ptr, end, len_ptr, expected_len) ==
    LET len  == ByteAt(b, len_ptr)
        fail(c, rd) == [code |-> c, byte_skip |-> 0, wrote |-> FALSE,
                        len |-> 0, data |-> NULL, read_hi |-> rd]
    IN  IF len_ptr = NULL THEN fail(OPT_TRUNC, 0)
        ELSE IF len = 0 \/ expected_len = 0 \/ expected_len = 1
             THEN fail(OPT_BADLEN, len_ptr + 1)
        ELSE IF expected_len > 1 /\ option_ptr + expected_len >= end
             THEN fail(OPT_TRUNC, len_ptr + 1)
        ELSE IF expected_len > 1 /\ len # expected_len
             THEN fail(OPT_BADLEN, len_ptr + 1)
        ELSE IF expected_len < 0 /\ len < 2
             THEN fail(OPT_BADLEN, len_ptr + 1)
        ELSE IF expected_len < 0 /\ option_ptr + len > end
             THEN fail(OPT_TRUNC, len_ptr + 1)
        ELSE [code |-> 0, byte_skip |-> len, wrote |-> TRUE,
              len |-> U8(len - 2),
              data |-> IF len = 2 THEN NULL ELSE option_ptr + 2,
              read_hi |-> len_ptr + 1]

OptLenValidate_length_trusted(b, option_ptr, end, len_ptr, expected_len) ==
    LET len  == ByteAt(b, len_ptr)
        fail(c, rd) == [code |-> c, byte_skip |-> 0, wrote |-> FALSE,
                        len |-> 0, data |-> NULL, read_hi |-> rd]
    IN  IF len_ptr = NULL THEN fail(OPT_TRUNC, 0)
        ELSE IF len = 0 \/ expected_len = 0 \/ expected_len = 1
             THEN fail(OPT_BADLEN, len_ptr + 1)
        ELSE IF expected_len > 1 /\ len # expected_len
             THEN fail(OPT_BADLEN, len_ptr + 1)
        ELSE IF expected_len < 0 /\ len < 2
             THEN fail(OPT_BADLEN, len_ptr + 1)
        ELSE [code |-> 0, byte_skip |-> len, wrote |-> TRUE,
              len |-> U8(len - 2),
              data |-> IF len = 2 THEN NULL ELSE option_ptr + 2,
              read_hi |-> len_ptr + 1]

(* OptLenValidate(option_ptr, end, len_ptr, expected_len, tcpopt, byte_skip) *)
(* over region b; pointers are offsets into b, len_ptr is NULL or an offset. *)
(* The result holds the return code, *byte_skip, whether *tcpopt was        *)
(* written, the values written to tcpopt->len and tcpopt->data, and one past *)
(* the highest offset read.                                                 *)
OptLenValidate(b, option_ptr, end, len_ptr, expected_len) ==
    LET len  == ByteAt(b, len_ptr)
        fail(c, rd) == [code |-> c, byte_skip |-> 0, wrote |-> FALSE,
                        len |-> 0, data |-> NULL, read_hi |-> rd]
    IN  IF len_ptr = NULL THEN fail(OPT_TRUNC, 0)
        ELSE IF len = 0 \/ expected_len = 0 \/ expected_len = 1
             THEN fail(OPT_BADLEN, len_ptr + 1)
        ELSE IF expected_len > 1 /\ option_ptr + expected_len > end
             THEN fail(OPT_TRUNC, len_ptr + 1)
        ELSE IF expected_len > 1 /\ len # expected_len
             THEN fail(OPT_BADLEN, len_ptr + 1)
        ELSE IF expected_len < 0 /\ len < 2
             THEN fail(OPT_BADLEN, len_ptr + 1)
        ELSE IF expected_len < 0 /\ option_ptr + len > end
             THEN fail(OPT_TRUNC, len_ptr + 1)
        ELSE [code |-> 0, byte_skip |-> len, wrote |-> TRUE,
              len |-> U8(len - 2),
              data |-> IF len = 2 THEN NULL ELSE option_ptr + 2,
              read_hi |-> len_ptr + 1]

----------------------------------------------------------------------------
(* Names and fixed lengths of the option kinds (protocols/tcp.h) *)

(* tcp::TcpOpt: the kind byte's name.  TRAILER_CSUM and UNASSIGNED, whose   *)
(* numbers the sources under study do not give, are left out of the option  *)
(* bytes the model enumerates; every other number takes the default case.   *)
TcpOpt(kind) ==
    CASE kind = 0 -> "EOL"       [] kind = 1 -> "NOP"
      [] kind = 2 -> "MAXSEG"    [] kind = 3 -> "WSCALE"
      [] kind = 4 -> "SACKOK"    [] kind = 5 -> "SACK"
      [] kind = 6 -> "ECHO"      [] kind = 7 -> "ECHOREPLY"
      [] kind = 8 -> "TIMESTAMP" [] kind = 11 -> "CC"
      [] kind = 12 -> "CC_NEW"   [] kind = 13 -> "CC_ECHO"
      [] kind = 16 -> "SKEETER"  [] kind = 17 -> "BUBBA"
      [] kind = 19 -> "MD5SIG"   [] kind = 29 -> "AUTH"
      [] OTHER -> "default"

(* TCPOLEN_*: the expected_len the walker passes for a kind, -1 for a       *)
(* variable-length one.                                                     *)
TCPOLEN(name) ==
    CASE name = "MAXSEG" -> 4    [] name = "SACKOK" -> 2
      [] name = "WSCALE" -> 3    [] name \in {"ECHO", "ECHOREPLY"} -> 6
      [] name = "MD5SIG" -> 18   [] name \in {"CC", "CC_NEW", "CC_ECHO"} -> 6
      [] name = "TIMESTAMP" -> 10
      [] OTHER -> -1

(* TCP_ISFLAGSET(tcph, flags): every bit of flags is set. *)
TCP_ISFLAGSET(th_flags, flags) == BitAnd(th_flags, flags) = flags

----------------------------------------------------------------------------
(* The packet record *)

UnsetOpt == [code |-> -1, len |-> -1, data |-> -1]
OptSlots == 0 .. (TCP_OPTLENMAX - 1)

(* A packet record just reset, and one still holding an earlier segment's   *)
(* decode.                                                                  *)
FreshPacket ==
    [tcph |-> "NULL", sp |-> 0, dp |-> 0,
     tcp_options |-> [i \in OptSlots |-> UnsetOpt], tcp_option_count |-> 0,
     data |-> NULL, dsize |-> 0, proto_bits |-> {}, error_flags |-> {},
     decode_flags |-> {}]
StalePacket ==
    [tcph |-> "stale", sp |-> 1111, dp |-> 2222,
     tcp_options |-> [i \in OptSlots |->
                        IF i < 2 THEN [code |-> 8, len |-> 8, data |-> 22 + 10 * i]
                        ELSE UnsetOpt],
     tcp_option_count |-> 2,
     data |-> 40, dsize |-> 7, proto_bits |-> {}, error_flags |-> {},
     decode_flags |-> {}]

(* codec_events::decoder_event(p, id): the sink sees the packet as it is    *)
(* at the time of the call.                                                 *)
decoder_event(evs, pkt, id) == Append(evs, [id |-> id, tcph |-> pkt.tcph])

RECURSIVE decoder_events(_, _, _)
decoder_events(evs, pkt, ids) ==
    IF ids = << >> THEN evs
    ELSE decoder_events(decoder_event(evs, pkt, Head(ids)), pkt, Tail(ids))

EventIds(evs) == [i \in 1 .. Len(evs) |-> evs[i].id]
Emitted(id) == \E i \in 1 .. Len(events) : events[i].id = id

NoFrame == [start |-> 0, o_len |-> 0, option_ptr |-> 0, end_ptr |-> 0,
            opt_count |-> 0, done |-> FALSE,
            experimental_option_found |-> FALSE, obsolete_option_found |-> FALSE,
            ttcp_found |-> FALSE, code |-> 2, byte_skip |-> 0,
            iters |-> 0, skipped |-> 0, bad_at |-> -1, parsed |-> << >>,
            ret_pc |-> "opt_done"]

----------------------------------------------------------------------------
(* Option walker: DecodeTCPOptions(start, o_len, p) over the bytes of raw   *)

(* Beside the locals of the code the frame keeps a record of the walk:      *)
(* iters counts the loop bodies entered, skipped sums the byte_skip values  *)
(* the cursor was advanced by, parsed lists the option records as they were *)
(* when their iteration completed, bad_at is the index at which a validator *)
(* error ended the walk (-1: none).                                         *)

(* What one pass through the switch on *option_ptr yields: the validator's  *)
(* result (or the NOP/EOL assignments), the flags the case sets, and        *)
(* whether WSCALE_INVALID is raised.                                        *)
Case(r, done, exper, obsol, ttcp, wscale) ==
    [code |-> r.code, byte_skip |-> r.byte_skip, wrote |-> r.wrote,
     len |-> r.len, data |-> r.data, read_hi |-> r.read_hi,
     done |-> done, experimental |-> exper, obsolete |-> obsol, ttcp |-> ttcp,
     wscale_invalid |-> wscale]

(* len_ptr != NULL and the byte at len_ptr is below 4 *)
AuthTooShort_below_two(b, len_ptr) == len_ptr # NULL /\ ByteAt(b, len_ptr) < 2
AuthTooShort(b, len_ptr) == len_ptr # NULL /\ ByteAt(b, len_ptr) < 4

(* (uint16_t) p->tcp_options[opt_count].data[0] > 14 *)
WscaleInvalid_from_fourteen(shift) == shift >= 14
WscaleInvalid(shift) == shift > 14

OptionSwitch(b, fr, kind, len_ptr) ==
    LET name == TcpOpt(kind)
        v(e) == OptLenValidate(b, fr.option_ptr, fr.end_ptr, len_ptr, e)
        one  == [code |-> 0, byte_skip |-> 1, wrote |-> TRUE, len |-> 0,
                 data |-> NULL, read_hi |-> 0]
    IN  CASE name = "EOL" -> Case(one, TRUE, FALSE, FALSE, FALSE, FALSE)
          [] name = "NOP" -> Case(one, FALSE, FALSE, FALSE, FALSE, FALSE)
          [] name \in {"MAXSEG", "SACKOK", "TIMESTAMP", "CC", "CC_NEW"} ->
                Case(v(TCPOLEN(name)), FALSE, FALSE, FALSE, FALSE, FALSE)
          [] name = "WSCALE" ->
                LET r == v(TCPOLEN(name))
                IN  IF r.code = 0
                    THEN Case([r EXCEPT !.read_hi = Max(@, r.data + 1)],
                              FALSE, FALSE, FALSE, FALSE, WscaleInvalid(ByteAt(b, r.data)))
                    ELSE Case(r, FALSE, FALSE, FALSE, FALSE, FALSE)
          [] name \in {"ECHO", "ECHOREPLY", "MD5SIG"} ->
                Case(v(TCPOLEN(name)), FALSE, FALSE, TRUE, FALSE, FALSE)
          [] name = "AUTH" ->
                IF AuthTooShort(b, len_ptr)
                THEN Case([code |-> OPT_BADLEN, byte_skip |-> fr.byte_skip,
                           wrote |-> FALSE, len |-> 0, data |-> NULL,
                           read_hi |-> len_ptr + 1],
                          FALSE, FALSE, FALSE, FALSE, FALSE)
                ELSE Case(v(-1), FALSE, FALSE, FALSE, FALSE, FALSE)
          [] name = "SACK" ->
                LET r == v(-1)
                IN  IF r.code = 0 /\ r.data = NULL
                    THEN Case([r EXCEPT !.code = OPT_BADLEN],
                              FALSE, FALSE, FALSE, FALSE, FALSE)
                    ELSE Case(r, FALSE, FALSE, FALSE, FALSE, FALSE)
          [] name = "CC_ECHO" ->
                Case(v(TCPOLEN(name)), FALSE, FALSE, FALSE, TRUE, FALSE)
          [] name \in {"SKEETER", "BUBBA"} ->
                Case(v(-1), FALSE, FALSE, TRUE, FALSE, FALSE)
          [] OTHER -> Case(v(-1), FALSE, TRUE, FALSE, FALSE, FALSE)

(* Entry: the o_len > TCP_OPTLENMAX guard and the locals' initial values.   *)
DecodeTCPOptions_enter ==
    /\ pc = "opt_enter"
    /\ IF w.o_len > TCP_OPTLENMAX
       THEN /\ p' = [p EXCEPT !.tcph = "NULL"]
            /\ pc' = w.ret_pc
            /\ w' = w
       ELSE /\ p' = p
            /\ pc' = "opt_loop"
            /\ w' = [w EXCEPT !.option_ptr = w.start,
                              !.end_ptr = w.start + w.o_len,
                              !.opt_count = 0, !.done = FALSE,
                              !.experimental_option_found = FALSE,
                              !.obsolete_option_found = FALSE,
                              !.ttcp_found = FALSE, !.code = 2]
    /\ UNCHANGED << host, raw, ip, cfg, p0, lyr_len, ret, events, read_hi, drop,
                    val, ck, enc,
                    upd, mc >>

LoopCond_without_done(fr) ==
    fr.option_ptr < fr.end_ptr /\ fr.opt_count < TCP_OPTLENMAX
LoopCond(fr) ==
    fr.option_ptr < fr.end_ptr /\ fr.opt_count < TCP_OPTLENMAX /\ ~fr.done

(* One iteration of the while loop, through to its return on a validator   *)
(* error or to the increment of opt_count and option_ptr.                   *)
DecodeTCPOptions_iterate ==
    /\ pc = "opt_loop"
    /\ LoopCond(w)
    /\ LET kind    == ByteAt(raw, w.option_ptr)
           len_ptr == IF w.option_ptr + 1 < w.end_ptr THEN w.option_ptr + 1 ELSE NULL
           c       == OptionSwitch(raw, w, kind, len_ptr)
           old     == p.tcp_options[w.opt_count]
           slot    == [code |-> kind,
                       len  |-> IF c.wrote THEN c.len ELSE old.len,
                       data |-> IF c.wrote THEN c.data ELSE old.data]
           p1      == [p EXCEPT !.tcp_options[w.opt_count] = slot]
           ev1     == IF c.wscale_invalid
                      THEN decoder_event(events, p1, "DECODE_TCPOPT_WSCALE_INVALID")
                      ELSE events
           w1      == [w EXCEPT !.code = c.code, !.byte_skip = c.byte_skip,
                                !.done = @ \/ c.done,
                                !.experimental_option_found = @ \/ c.experimental,
                                !.obsolete_option_found = @ \/ c.obsolete,
                                !.ttcp_found = @ \/ c.ttcp,
                                !.iters = @ + 1]
       IN  /\ read_hi' = Max(read_hi, Max(w.option_ptr + 1, c.read_hi))
           /\ IF c.code < 0
              THEN /\ events' = (IF c.code = OPT_BADLEN
                                 THEN decoder_event(ev1, p1, "DECODE_TCPOPT_BADLEN")
                                 ELSE IF c.code = OPT_TRUNC
                                 THEN decoder_event(ev1, p1, "DECODE_TCPOPT_TRUNCATED")
                                 ELSE ev1)
                   /\ p' = [p1 EXCEPT !.tcp_option_count = w.opt_count]
                   /\ w' = [w1 EXCEPT !.bad_at = w.opt_count]
                   /\ pc' = w.ret_pc
              ELSE /\ events' = ev1
                   /\ p' = p1
                   /\ w' = [w1 EXCEPT !.opt_count = U8(@ + 1),
                                      !.option_ptr = @ + c.byte_skip,
                                      !.skipped = @ + c.byte_skip,
                                      !.parsed = Append(@, slot)]
                   /\ pc' = "opt_loop"
    /\ UNCHANGED << host, raw, ip, cfg, p0, lyr_len, ret, drop, val, ck, enc,
                    upd, mc >>

(* Lines 579-590: the if / else if chain over the three found flags. *)
SummaryEvents_every_class_found(fr) ==
    (IF fr.experimental_option_found THEN << "DECODE_TCPOPT_EXPERIMENTAL" >> ELSE << >>)
    \o (IF fr.obsolete_option_found THEN << "DECODE_TCPOPT_OBSOLETE" >> ELSE << >>)
    \o (IF fr.ttcp_found THEN << "DECODE_TCPOPT_TTCP" >> ELSE << >>)
SummaryEvents(fr) ==
    IF fr.experimental_option_found THEN << "DECODE_TCPOPT_EXPERIMENTAL" >>
    ELSE IF fr.obsolete_option_found THEN << "DECODE_TCPOPT_OBSOLETE" >>
    ELSE IF fr.ttcp_found THEN << "DECODE_TCPOPT_TTCP" >>
    ELSE << >>

(* After the loop: the count and the one summary event. *)
DecodeTCPOptions_finish ==
    /\ pc = "opt_loop"
    /\ ~LoopCond(w)
    /\ p' = [p EXCEPT !.tcp_option_count = w.opt_count]
    /\ events' = decoder_events(events, p', SummaryEvents(w))
    /\ pc' = w.ret_pc
    /\ UNCHANGED << host, raw, ip, cfg, p0, lyr_len, ret, read_hi, drop, w,
                    val, ck, enc,
                    upd, mc >>

----------------------------------------------------------------------------
(* Header decoder: TcpCodec::decode(raw_pkt, raw_len, p, lyr_len, _)        *)

raw_len == BufLen(raw)

(* Fields of tcp::TCPHdr laid over the raw bytes. *)
th_sport(b) == Load16(b, 0)
th_dport(b) == Load16(b, 2)
th_seq(b)   == Load32(b, 4)
th_ack(b)   == Load32(b, 8)
th_offx2(b) == ByteAt(b, 12)
th_flags(b) == ByteAt(b, 13)
th_win(b)   == Load16(b, 14)
th_sum(b)   == Load16(b, 16)
th_urp(b)   == Load16(b, 18)
(* TCPHdr::hdr_len(): (th_offx2 & 0xf0) >> 2 *)
hdr_len_eight_byte_units(b) == (th_offx2(b) \div 16) * 8
hdr_len(b)  == (th_offx2(b) \div 16) * 4

InSynToMulticastDstIp_two_ranges(ipctx) ==
    ipctx.is_ip4 /\ ipctx.dst[1] \in {232, 233}

(* sfvar_ip_in(SynToMulticastDstIp, dst) for the variable built from        *)
(* "[232.0.0.0/8,233.0.0.0/8,239.0.0.0/8]".                                 *)
InSynToMulticastDstIp(ipctx) ==
    ipctx.is_ip4 /\ ipctx.dst[1] \in {232, 233, 239}

(* The pseudoheader decode builds: ph.len = htons((uint16_t)raw_len). *)
DecodePseudoheader(ipctx, len) ==
    Pseudoheader(ipctx.src, ipctx.dst, ipctx.proto, U16(len))

DecodeCsum == tcp_cksum(raw, raw_len, DecodePseudoheader(ip, raw_len))

(* p->tcph = NULL on a failure path. *)
Fail_keeps_tcph(pkt) == pkt
Fail_clears_ports(pkt) == [pkt EXCEPT !.tcph = "NULL", !.sp = 0, !.dp = 0]
Fail(pkt) == [pkt EXCEPT !.tcph = "NULL"]

(* raw_len < tcp::TCP_HEADER_LEN *)
ShortSegment_off_by_one(len) == len < TCP_HEADER_LEN - 1
ShortSegment(len) == len < TCP_HEADER_LEN

(* lyr_len < tcp::TCP_HEADER_LEN *)
InvalidOffset_below_four_words(len) == len < TCP_HEADER_LEN - 4
InvalidOffset(len) == len < TCP_HEADER_LEN

(* lyr_len > raw_len *)
LargeOffset_or_equal(len, rlen) == len >= rlen
LargeOffset(len, rlen) == len > rlen

(* ScInlineMode() && ScTcpChecksumDrops() *)
DropPolicy_without_inline(c) == c.tcp_checksum_drops
DropPolicy(c) == c.inline_mode /\ c.tcp_checksum_drops

(* p->decode_flags & DECODE__UNSURE_ENCAP *)
UnsureEncap_wrong_field(pkt) == "DECODE__UNSURE_ENCAP" \in pkt.error_flags
UnsureEncap(pkt) == "DECODE__UNSURE_ENCAP" \in pkt.decode_flags

(* Lines 150-163: the length check and the borrow of the header. *)
decode_len ==
    /\ pc = "d_len"
    /\ IF ShortSegment(raw_len)
       THEN /\ events' = decoder_event(events, p, "DECODE_TCP_DGRAM_LT_TCPHDR")
            /\ p' = Fail(p)
            /\ ret' = FALSE
            /\ pc' = "done"
       ELSE /\ events' = events
            /\ p' = [p EXCEPT !.tcph = "raw"]
            /\ ret' = ret
            /\ pc' = "d_off"
    /\ UNCHANGED << host, raw, ip, cfg, p0, lyr_len, read_hi, drop, w, val, ck, enc,
                    upd, mc >>

(* Lines 166-193: lyr_len and the two data-offset checks. *)
decode_offset ==
    /\ pc = "d_off"
    /\ lyr_len' = hdr_len(raw)
    /\ read_hi' = Max(read_hi, 13)
    /\ IF InvalidOffset(lyr_len')
       THEN /\ events' = decoder_event(events, p, "DECODE_TCP_INVALID_OFFSET")
            /\ p' = Fail(p)
            /\ ret' = FALSE
            /\ pc' = "done"
       ELSE IF LargeOffset(lyr_len', raw_len)
       THEN /\ events' = decoder_event(events, p, "DECODE_TCP_LARGE_OFFSET")
            /\ p' = Fail(p)
            /\ ret' = FALSE
            /\ pc' = "done"
       ELSE /\ events' = events
            /\ p' = p
            /\ ret' = ret
            /\ pc' = "d_cksum"
    /\ UNCHANGED << host, raw, ip, cfg, p0, drop, w, val, ck, enc,
                    upd, mc >>

(* Lines 198-258: checksum verification. *)
decode_cksum ==
    /\ pc = "d_cksum"
    /\ IF cfg.tcp_checksums
       THEN /\ read_hi' = Max(read_hi, raw_len)
            /\ IF DecodeCsum # 0
               THEN IF UnsureEncap(p)
                    THEN /\ p' = Fail(p)
                         /\ ret' = FALSE
                         /\ drop' = drop
                         /\ pc' = "done"
                    ELSE /\ p' = [p EXCEPT !.error_flags = @ \cup {"PKT_ERR_CKSUM_TCP"}]
                         /\ ret' = ret
                         /\ drop' = (drop \/ DropPolicy(cfg))
                         /\ pc' = "d_flags"
               ELSE /\ p' = p
                    /\ ret' = ret
                    /\ drop' = drop
                    /\ pc' = "d_flags"
       ELSE /\ read_hi' = read_hi
            /\ p' = p
            /\ ret' = ret
            /\ drop' = drop
            /\ pc' = "d_flags"
    /\ UNCHANGED << host, raw, ip, cfg, p0, lyr_len, events, w, val, ck, enc,
                    upd, mc >>

(* Lines 260-274: the two XMAS events. *)
XmasEvents_any_of_syn_ack_rst(f) ==
    IF TCP_ISFLAGSET(f, TH_FIN + TH_PUSH + TH_URG)
    THEN IF BitAnd(f, TH_SYN + TH_ACK + TH_RST) # 0
         THEN << "DECODE_TCP_XMAS" >> ELSE << "DECODE_TCP_NMAP_XMAS" >>
    ELSE << >>
XmasEvents(f) ==
    IF TCP_ISFLAGSET(f, TH_FIN + TH_PUSH + TH_URG)
    THEN IF TCP_ISFLAGSET(f, TH_SYN + TH_ACK + TH_RST)
         THEN << "DECODE_TCP_XMAS" >> ELSE << "DECODE_TCP_NMAP_XMAS" >>
    ELSE << >>

(* Lines 279-288: th_flags == TH_SYN, th_seq == 6060842 as the host loads   *)
(* it, and the IP id 413.                                                   *)
Naptha(b, ipctx) ==
    th_flags(b) = TH_SYN /\ th_seq(b) = W32(6060842) /\ ipctx.id = 413

(* Lines 276-304: the events of the SYN branch and of its else branch. *)
SynEvents_else_branch_unconditional(b, ipctx) ==
    IF TCP_ISFLAGSET(th_flags(b), TH_SYN)
    THEN (IF Naptha(b, ipctx) THEN << "DECODE_DOS_NAPTHA" >> ELSE << >>)
         \o (IF InSynToMulticastDstIp(ipctx)
             THEN << "DECODE_SYN_TO_MULTICAST" >> ELSE << >>)
         \o (IF BitAnd(th_flags(b), TH_RST) # 0 THEN << "DECODE_TCP_SYN_RST" >> ELSE << >>)
         \o (IF BitAnd(th_flags(b), TH_FIN) # 0 THEN << "DECODE_TCP_SYN_FIN" >> ELSE << >>)
    ELSE << "DECODE_TCP_NO_SYN_ACK_RST" >>
SynEvents(b, ipctx) ==
    IF TCP_ISFLAGSET(th_flags(b), TH_SYN)
    THEN (IF Naptha(b, ipctx) THEN << "DECODE_DOS_NAPTHA" >> ELSE << >>)
         \o (IF InSynToMulticastDstIp(ipctx)
             THEN << "DECODE_SYN_TO_MULTICAST" >> ELSE << >>)
         \o (IF BitAnd(th_flags(b), TH_RST) # 0 THEN << "DECODE_TCP_SYN_RST" >> ELSE << >>)
         \o (IF BitAnd(th_flags(b), TH_FIN) # 0 THEN << "DECODE_TCP_SYN_FIN" >> ELSE << >>)
    ELSE IF BitAnd(th_flags(b), TH_ACK + TH_RST) = 0
         THEN << "DECODE_TCP_NO_SYN_ACK_RST" >> ELSE << >>

(* Lines 306-308. *)
MustAckEvents(f) ==
    IF BitAnd(f, TH_FIN + TH_PUSH + TH_URG) # 0 /\ BitAnd(f, TH_ACK) = 0
    THEN << "DECODE_TCP_MUST_ACK" >> ELSE << >>

(* Lines 260-308: the events the flag byte raises, in the order raised. *)
FlagEvents_must_ack_first(b, ipctx) ==
    MustAckEvents(th_flags(b)) \o XmasEvents(th_flags(b)) \o SynEvents(b, ipctx)
FlagEvents(b, ipctx) ==
    XmasEvents(th_flags(b)) \o SynEvents(b, ipctx) \o MustAckEvents(th_flags(b))

decode_flags ==
    /\ pc = "d_flags"
    /\ events' = decoder_events(events, p, FlagEvents(raw, ip))
    /\ read_hi' = Max(read_hi, 14)
    /\ pc' = "d_opts"
    /\ UNCHANGED << host, raw, ip, cfg, p, p0, lyr_len, ret, drop, w, val, ck, enc,
                    upd, mc >>

(* Lines 311-328: the ports, then the option walk or a zero option count. *)
decode_options ==
    /\ pc = "d_opts"
    /\ read_hi' = Max(read_hi, 13)
    /\ LET p1 == [p EXCEPT !.sp = ntohs(th_sport(raw)), !.dp = ntohs(th_dport(raw))]
           tcp_opt_len == U16(hdr_len(raw) - TCP_HEADER_LEN)
       IN  IF tcp_opt_len > 0
           THEN /\ p' = p1
                /\ w' = [NoFrame EXCEPT !.start = TCP_HEADER_LEN, !.o_len = tcp_opt_len,
                                        !.ret_pc = "d_tail"]
                /\ pc' = "opt_enter"
           ELSE /\ p' = [p1 EXCEPT !.tcp_option_count = 0]
                /\ w' = w
                /\ pc' = "d_tail"
    /\ UNCHANGED << host, raw, ip, cfg, p0, lyr_len, ret, events, drop, val, ck, enc,
                    upd, mc >>

(* TCPMiscTests(p) *)
TCPMiscTests(b, pkt) ==
    (IF BitAnd(th_flags(b), TH_NORESERVED) = TH_SYN /\ th_seq(b) = htonl(W32(674711609))
     THEN << "DECODE_TCP_SHAFT_SYNFLOOD" >> ELSE << >>)
    \o (IF pkt.sp = 0 \/ pkt.dp = 0 THEN << "DECODE_TCP_PORT_ZERO" >> ELSE << >>)

(* Lines 342-343: (th_flags & TH_URG) && (!dsize || ntohs(th_urp) > dsize) *)
BadUrp_only_beyond_payload(b, dsz) ==
    BitAnd(th_flags(b), TH_URG) # 0 /\ ntohs(th_urp(b)) > dsz
BadUrp(b, dsz) ==
    BitAnd(th_flags(b), TH_URG) # 0 /\ (dsz = 0 \/ ntohs(th_urp(b)) > dsz)

(* Lines 330-349: data and dsize, BAD_URP, the protocol bit, the            *)
(* miscellaneous tests.  p->tcph is dereferenced here: with a null p->tcph  *)
(* the call does not return.                                                *)
decode_tail ==
    /\ pc = "d_tail"
    /\ IF p.tcph = "NULL"
       THEN /\ pc' = "crashed"
            /\ UNCHANGED << p, events, ret, read_hi >>
       ELSE LET dsz == IF lyr_len < raw_len THEN U16(raw_len - lyr_len) ELSE 0
                p1  == [p EXCEPT !.data = lyr_len, !.dsize = dsz]
                ev1 == IF BadUrp(raw, dsz)
                       THEN decoder_event(events, p1, "DECODE_TCP_BAD_URP")
                       ELSE events
                p2  == [p1 EXCEPT !.proto_bits = @ \cup {"PROTO_BIT__TCP"}]
            IN  /\ p' = p2
                /\ events' = decoder_events(ev1, p2, TCPMiscTests(raw, p2))
                /\ read_hi' = Max(read_hi, 20)
                /\ ret' = TRUE
                /\ pc' = "done"
    /\ UNCHANGED << host, raw, ip, cfg, p0, lyr_len, drop, w, val, ck, enc,
                    upd, mc >>

----------------------------------------------------------------------------
(* Encoder: TcpCodec::encode(enc, out, raw_in)                              *)

(* The output buffer is the bytes from out->base to its end and the room it *)
(* has in all.  update_buffer(out, n) refuses, changing nothing, when n     *)
(* more bytes do not fit; otherwise it moves base back by n.  The n bytes   *)
(* so reserved hold whatever the buffer's memory held: `fill`.              *)
update_buffer(out, n, fill) ==
    IF Len(out.data) + n > out.size
    THEN [ok |-> FALSE, out |-> out]
    ELSE [ok |-> TRUE, out |-> [out EXCEPT !.data = [i \in 1 .. n |-> fill] \o @]]

(* buff_diff(out, ho) for ho = out->base: the bytes from ho to the end. *)
buff_diff(out) == Len(out.data)

(* The two port fields of ho, as bytes: copied, or exchanged on reverse. *)
EncodePorts_never_swapped(fwd, hi) == SubSeq(hi.bytes, 1, 4)
EncodePorts(fwd, hi) ==
    IF fwd THEN SubSeq(hi.bytes, 1, 4)
    ELSE SubSeq(hi.bytes, 3, 4) \o SubSeq(hi.bytes, 1, 2)

(* th_seq and th_ack of ho as host-order objects. *)
EncodeSeqAck_inline_ignored(e, hi, dsize) ==
    LET ctl  == IF BitAnd(th_flags(hi), TH_SYN) # 0 THEN 1 ELSE 0
        next == htonl(Add32(Add32(ntohl(th_seq(hi)), dsize), ctl))
        seq0 == IF e.fwd THEN next ELSE th_ack(hi)
        ack  == IF e.fwd THEN th_ack(hi) ELSE next
        seq  == IF e.seq_flag THEN htonl(Add32(ntohl(seq0), e.seq_val)) ELSE seq0
    IN  [seq |-> seq, ack |-> ack]
EncodeSeqAck_ack_without_ctl(e, hi, dsize) ==
    LET next == htonl(Add32(ntohl(th_seq(hi)), dsize))
        seq0 == IF e.fwd THEN (IF ~e.inline THEN next ELSE th_seq(hi)) ELSE th_ack(hi)
        ack  == IF e.fwd THEN th_ack(hi) ELSE next
        seq  == IF e.seq_flag THEN htonl(Add32(ntohl(seq0), e.seq_val)) ELSE seq0
    IN  [seq |-> seq, ack |-> ack]
EncodeSeqAck(e, hi, dsize) ==
    LET ctl  == IF BitAnd(th_flags(hi), TH_SYN) # 0 THEN 1 ELSE 0
        next == htonl(Add32(Add32(ntohl(th_seq(hi)), dsize), ctl))
        seq0 == IF e.fwd THEN (IF ~e.inline THEN next ELSE th_seq(hi)) ELSE th_ack(hi)
        ack  == IF e.fwd THEN th_ack(hi) ELSE next
        seq  == IF e.seq_flag THEN htonl(Add32(ntohl(seq0), e.seq_val)) ELSE seq0
    IN  [seq |-> seq, ack |-> ack]

EncodeFlags_only_with_payload(e) ==
    IF e.type \in {"ENC_TCP_FIN", "ENC_TCP_PUSH"} /\ Len(e.payLoad) > 0
    THEN (IF e.type = "ENC_TCP_PUSH" THEN TH_ACK + TH_PUSH ELSE TH_ACK + TH_FIN)
    ELSE TH_RST + TH_ACK
EncodeFlags(e) ==
    IF e.type \in {"ENC_TCP_FIN", "ENC_TCP_PUSH"}
    THEN (IF e.type = "ENC_TCP_PUSH" THEN TH_ACK + TH_PUSH ELSE TH_ACK + TH_FIN)
    ELSE TH_RST + TH_ACK

EncodeWin(e) == IF e.type = "ENC_TCP_PUSH" THEN htons(65535) ELSE 0

(* encode: the result, the output buffer as the call leaves it, enc->proto. *)
(* e carries enc->type, forward(enc->flags), ENC_FLAG_SEQ and ENC_FLAG_VAL, *)
(* the interface mode and enc->payLoad (<< >> for none); hi is raw_in,      *)
(* dsize is enc->p->dsize and ipctx is enc->p->ip_api.                      *)
encode(e, out, hi, dsize, ipctx, fill) ==
    LET attach_payload == e.type \in {"ENC_TCP_FIN", "ENC_TCP_PUSH"}
        with_payload   == attach_payload /\ Len(e.payLoad) > 0
        u1   == IF with_payload THEN update_buffer(out, Len(e.payLoad), fill)
                ELSE [ok |-> TRUE, out |-> out]
        out1 == IF with_payload /\ u1.ok
                THEN [u1.out EXCEPT !.data = e.payLoad \o out.data]
                ELSE u1.out
        u2   == update_buffer(out1, hdr_len(hi), fill)
        sa   == EncodeSeqAck(e, hi, dsize)
        head(sum) == EncodePorts(e.fwd, hi) \o Store32(sa.seq) \o Store32(sa.ack)
                     \o << 5 * 16, EncodeFlags(e) >> \o Store16(EncodeWin(e))
                     \o Store16(sum) \o Store16(0)
        after == SubSeq(u2.out.data, TCP_HEADER_LEN + 1, Len(u2.out.data))
        len   == buff_diff(u2.out)
        ps    == Pseudoheader(ipctx.src, ipctx.dst, IPPROTO_TCP, U16(len))
        sum   == tcp_cksum(Buf(head(0) \o after), len, ps)
    IN  IF ~u1.ok THEN [ret |-> FALSE, out |-> out, proto |-> 0]
        ELSE IF ~u2.ok THEN [ret |-> FALSE, out |-> out1, proto |-> 0]
        ELSE [ret |-> TRUE, out |-> [u2.out EXCEPT !.data = head(sum) \o after],
              proto |-> IPPROTO_TCP]

----------------------------------------------------------------------------
(* Segments and contexts the calls are made with *)

BE16(x) == << x \div 256, x % 256 >>
BE32(v) == BE16(v[1]) \o BE16(v[2])

(* The 20 header bytes on the wire; h.sum is the two bytes of the checksum  *)
(* field as they lie in memory.                                             *)
HdrBytes(h) ==
    BE16(h.sport) \o BE16(h.dport) \o BE32(h.seq) \o BE32(h.ack)
    \o << h.off * 16, h.flags >> \o BE16(h.win) \o h.sum \o BE16(h.urp)

NoSum == << 0, 0 >>

(* A segment as a sender hands it to the wire: header, then `rest` (options *)
(* and payload), then zp zero bytes of payload; the checksum field holds    *)
(* the kernel's value over the segment with the field zero when good, and   *)
(* that value plus one otherwise.                                           *)
SenderSegment(h, rest, zp, ipctx, good) ==
    LET z   == [bytes |-> HdrBytes([h EXCEPT !.sum = NoSum]) \o rest, zpad |-> zp]
        c   == tcp_cksum(z, BufLen(z), DecodePseudoheader(ipctx, BufLen(z)))
        fld == IF good THEN c ELSE U16(c + 1)
    IN  [bytes |-> HdrBytes([h EXCEPT !.sum = Store16(fld)]) \o rest, zpad |-> zp]

Nops(n) == [i \in 1 .. n |-> 1]

Ip4Ctx == [is_ip4 |-> TRUE, src |-> << 10, 0, 0, 1 >>, dst |-> << 10, 0, 0, 2 >>,
           proto |-> IPPROTO_TCP, id |-> 1]
Ip6Ctx == [is_ip4 |-> FALSE,
           src |-> << 32, 1, 13, 184, 0, 0, 0, 0, 0, 0, 0, 0, 0, 0, 0, 1 >>,
           dst |-> << 32, 1, 13, 184, 0, 0, 0, 0, 0, 0, 0, 0, 0, 0, 0, 2 >>,
           proto |-> IPPROTO_TCP, id |-> 1]
IpCtxs == {Ip4Ctx, Ip6Ctx}

(* Scenario S1 of the specification: ports 40000 -> 80, seq 1, SYN. *)
BaseHdr == [sport |-> 40000, dport |-> 80, seq |-> W32(1), ack |-> W32(0), off |-> 5,
            flags |-> TH_SYN, win |-> 8192, sum |-> NoSum, urp |-> 0]

HdrVariants ==
    { BaseHdr,
      [BaseHdr EXCEPT !.flags = TH_ACK, !.ack = W32(7)],
      [BaseHdr EXCEPT !.flags = TH_ACK + TH_URG, !.urp = 3],
      [BaseHdr EXCEPT !.flags = TH_FIN + TH_PUSH + TH_URG, !.dport = 0],
      [BaseHdr EXCEPT !.flags = TH_NORESERVED, !.urp = 70] }

Offsets == 0 .. 15

(* What follows the 20 header bytes: option bytes and payload. *)
Rests ==
    { << >>,
      << 1, 1, 1, 0 >>,
      << 3, 2, 0, 0 >>,
      << 3, 3, 15, 0 >>,
      << 2, 4, 5, 180, 72, 105, 33 >>,
      << 1, 5, 2, 0 >>,
      << 4, 2, 29, 3 >>,
      << 8, 10, 0, 0, 0, 1, 0, 0, 0, 2, 13, 6, 0, 0, 0, 0, 1, 5, 65, 66 >>,
      Nops(TCP_OPTLENMAX) }

(* Zero bytes of payload after `rest`; 65536 makes raw_len exceed 16 bits. *)
ZPads == {0, 65536}

Cfgs == [tcp_checksums : BOOLEAN, inline_mode : BOOLEAN, tcp_checksum_drops : BOOLEAN]
Cfg0 == [tcp_checksums |-> FALSE, inline_mode |-> FALSE, tcp_checksum_drops |-> FALSE]

NoVal == [called |-> FALSE]
NoCk == [called |-> FALSE]
NoEnc == [called |-> FALSE]
NoUpd == [called |-> FALSE]

(* The worker threads, and SynToMulticastDstIp with the threads that touch  *)
(* it: the state of the pointer ("NULL" as line 113 initialises it, "set",  *)
(* "freed"), how often it was written and freed, the phase of the process,  *)
(* whether a write or free ever met a read in progress, and for each worker *)
(* its position in decode, its segment and the events of lines 276-298.     *)
NumWorkers == 2
Workers == 1 .. NumWorkers
IdleWorker == [pc |-> "idle", flags |-> 0, dst |-> << 0, 0, 0, 0 >>, events |-> << >>]
McUnloaded ==
    [var |-> "NULL", writes |-> 0, frees |-> 0, phase |-> "start", race |-> FALSE,
     th |-> [t \in Workers |-> IdleWorker]]
(* SynToMulticastDstIp as tcp_codec_ginit leaves it. *)
McLoaded == [McUnloaded EXCEPT !.var = "set", !.writes = 1, !.phase = "running"]

Begin(b, ipctx, c, pkt, first) ==
    /\ raw' = b
    /\ ip' = ipctx
    /\ cfg' = c
    /\ p' = pkt
    /\ p0' = pkt
    /\ lyr_len' = 0
    /\ ret' = FALSE
    /\ events' = << >>
    /\ read_hi' = 0
    /\ drop' = FALSE
    /\ pc' = first

Unsure(pkt, unsure) ==
    [pkt EXCEPT !.decode_flags = IF unsure THEN {"DECODE__UNSURE_ENCAP"} ELSE {}]

(* A call of decode on a segment of at least 20 bytes: every data offset    *)
(* against every tail, with checksum verification off or on.                *)
Call_decode ==
    /\ pc = "idle"
    /\ \E h \in HdrVariants, off \in Offsets, rest \in Rests, zp \in ZPads,
          ipctx \in IpCtxs, good \in BOOLEAN, cks \in BOOLEAN, unsure \in BOOLEAN :
          Begin(SenderSegment([h EXCEPT !.off = off], rest, zp, ipctx, good),
                ipctx, [Cfg0 EXCEPT !.tcp_checksums = cks],
                Unsure(StalePacket, unsure), "d_len")
    /\ UNCHANGED << host, w, val, ck, enc,
                    upd, mc >>

(* A call of decode under every setting of the three policies, on segments  *)
(* whose data offset fits.                                                  *)
Call_decode_policy ==
    /\ pc = "idle"
    /\ \E h \in HdrVariants, off \in {5, 6}, rest \in Rests,
          ipctx \in IpCtxs, good \in BOOLEAN, c \in Cfgs, unsure \in BOOLEAN :
          Begin(SenderSegment([h EXCEPT !.off = off], rest, 0, ipctx, good),
                ipctx, c, Unsure(StalePacket, unsure), "d_len")
    /\ UNCHANGED << host, w, val, ck, enc,
                    upd, mc >>

(* A call of decode on the first n < 20 bytes of a segment. *)
Call_decode_short ==
    /\ pc = "idle"
    /\ \E n \in 0 .. (TCP_HEADER_LEN - 1), h \in HdrVariants, c \in Cfgs,
          pkt \in {FreshPacket, StalePacket} :
          Begin(Buf(SubSeq(HdrBytes(h), 1, n)), Ip4Ctx, c, pkt, "d_len")
    /\ UNCHANGED << host, w, val, ck, enc,
                    upd, mc >>

(* Option regions for calls of the walker on its own: every run of at most  *)
(* MaxRegion bytes over OptAlphabet; every run of at most 2 such bytes      *)
(* behind 37, 38 or 39 NOPs, which takes the region to 40 bytes and beyond; *)
(* one variable-length option of 29, 38 or 40 bytes, alone and before a NOP *)
(* or an EOL; and the tails of Rests.                                       *)
OptAlphabet == {0, 1, 2, 3, 4, 5, 29}
OptRuns == UNION { [1 .. n -> OptAlphabet] : n \in 0 .. MaxRegion }
ShortRuns == UNION { [1 .. n -> OptAlphabet] : n \in 0 .. 2 }
NopPrefixes == {37, 38, 39}
LongOptions ==
    { << k, l >> \o [i \in 1 .. (l - 2) |-> 0] \o s :
        k \in {5, 29, 254}, l \in {29, 38, 40}, s \in {<< >>, << 1 >>, << 0 >>} }
(* Regions that mix an experimental, an obsolete and a T/TCP option in      *)
(* every order, alone or before an option that fails validation.            *)
ClassOptions ==
    { << 254, 2 >>, << 16, 2 >>, << 6, 6, 0, 0, 0, 0 >>, << 13, 6, 0, 0, 0, 0 >>, << 1 >> }
ClassTails == { << >>, << 3, 2 >>, << 2 >>, << 254 >>, << 13, 4 >> }
ClassRegions ==
    { a \o b \o c \o t : a \in ClassOptions, b \in ClassOptions, c \in ClassOptions,
                         t \in ClassTails }
(* WSCALE options around the shift limit of 14, of the right and of a wrong *)
(* length, alone or before further options.                                 *)
WscaleShifts == {0, 14, 15, 255}
WscaleTails == { << >>, << 1 >>, << 3, 3, 15 >>, << 3, 2 >>, << 3 >>, << 0, 3, 3, 15 >> }
WscaleRegions ==
    { << 3, l, sh >> \o t : l \in {2, 3, 4}, sh \in WscaleShifts, t \in WscaleTails }
OptRegions ==
    OptRuns \cup { Nops(n) \o s : n \in NopPrefixes, s \in ShortRuns }
            \cup LongOptions \cup Rests \cup ClassRegions \cup WscaleRegions

(* A call DecodeTCPOptions(start, o_len, p) with the region as start. *)
Call_DecodeTCPOptions ==
    /\ pc = "idle"
    /\ \E region \in OptRegions, pkt \in {FreshPacket, StalePacket} :
          /\ Begin(Buf(region), Ip4Ctx, Cfg0, [pkt EXCEPT !.tcph = "raw"], "opt_enter")
          /\ w' = [NoFrame EXCEPT !.o_len = Len(region)]
    /\ UNCHANGED << host, val, ck, enc,
                    upd, mc >>

(* A call of OptLenValidate on its own, as the walker makes it: the option  *)
(* at option_ptr, the region ending at `end`, len_ptr the next byte or NULL *)
(* when that byte lies outside the region.                                  *)
LenBytes == 0 .. 255
ValEnds == {1, 2, 3, 4, 5, 6, 7, 10, 11, 18, 19, 40}
ExpectedLens == {-1, 0, 1, 2, 3, 4, 6, 10, 18}
Call_OptLenValidate ==
    /\ pc = "idle"
    /\ \E option_ptr \in {0, 3}, l \in LenBytes, e \in ValEnds, x \in ExpectedLens :
          LET b       == [bytes |-> Nops(option_ptr) \o << 5, l >>, zpad |-> TCP_OPTLENMAX]
              end     == option_ptr + e
              len_ptr == IF option_ptr + 1 < end THEN option_ptr + 1 ELSE NULL
          IN  val' = [called |-> TRUE, b |-> b, option_ptr |-> option_ptr, end |-> end,
                      len_ptr |-> len_ptr, expected_len |-> x,
                      r |-> OptLenValidate(b, option_ptr, end, len_ptr, x)]
    /\ pc' = "val_done"
    /\ UNCHANGED << host, raw, ip, cfg, p, p0, lyr_len, ret, events, read_hi, drop,
                    w, ck, enc,
                    upd, mc >>

(* A call of the checksum kernel on its own.  The segment is a header, an   *)
(* optional 16-bit word that brings the sum of everything else to 0xFFFF,   *)
(* and a tail of 0..3 bytes; the checksum field holds the kernel's value    *)
(* over the segment with the field zero, that value plus one, 0 or 0xFFFF.  *)
CkTails == { << >>, << 72 >>, << 72, 105 >>, << 72, 105, 33 >> }
ZeroField(d) == [d EXCEPT !.bytes[17] = 0, !.bytes[18] = 0]
Kernel(ipctx, d) ==
    IF ipctx.is_ip4
    THEN in_chksum_tcp(DecodePseudoheader(ipctx, BufLen(d)), d, BufLen(d))
    ELSE in_chksum_tcp6(DecodePseudoheader(ipctx, BufLen(d)), d, BufLen(d))
Call_in_chksum_tcp ==
    /\ pc = "idle"
    /\ \E h \in HdrVariants, tail \in CkTails, comp \in BOOLEAN, ipctx \in IpCtxs,
          f \in {"kernel", "kernel+1", "0", "0xFFFF"} :
          LET hb   == HdrBytes([h EXCEPT !.sum = NoSum])
              k0   == Kernel(ipctx, Buf(hb \o << 0, 0 >> \o tail))
              body == IF comp THEN Store16(k0) \o tail ELSE tail
              z    == Buf(hb \o body)
              k    == Kernel(ipctx, z)
              fld  == CASE f = "kernel" -> k [] f = "kernel+1" -> U16(k + 1)
                        [] f = "0" -> 0 [] OTHER -> 65535
              d    == Buf(HdrBytes([h EXCEPT !.sum = Store16(fld)]) \o body)
          IN  ck' = [called |-> TRUE, ip |-> ipctx, d |-> d, dlen |-> BufLen(d),
                     r |-> Kernel(ipctx, d)]
    /\ pc' = "ck_done"
    /\ UNCHANGED << host, raw, ip, cfg, p, p0, lyr_len, ret, events, read_hi, drop,
                    w, val, enc,
                    upd, mc >>

(* Inbound segments a response is encoded for, and the encoder's inputs. *)
EncHdrs ==
    { BaseHdr,
      [BaseHdr EXCEPT !.flags = TH_SYN + TH_ACK, !.seq = << 65535, 65535 >>,
                      !.ack = W32(7)],
      [BaseHdr EXCEPT !.flags = TH_ACK, !.ack = W32(70000)] }
EncRests == { << >>, << 2, 4, 5, 180, 72, 105, 33 >>, Nops(TCP_OPTLENMAX) }
EncOffsets == {5, 6, 15}
EncodeTypes == {"ENC_TCP_RST", "ENC_TCP_FIN", "ENC_TCP_PUSH"}
EncPayloads == { << >>, << 72, 105, 33 >> }
OutSizes == {2, 22, 100}
Fills == {0, 170}
SwapIp(ipctx) == [ipctx EXCEPT !.src = ipctx.dst, !.dst = ipctx.src]

Call_decode_inbound ==
    /\ pc = "idle"
    /\ \E h \in EncHdrs, off \in EncOffsets, rest \in EncRests, ipctx \in IpCtxs :
          Begin(SenderSegment([h EXCEPT !.off = off], rest, 0, ipctx, TRUE),
                ipctx, Cfg0, FreshPacket, "d_len")
    /\ UNCHANGED << host, w, val, ck, enc,
                    upd, mc >>

(* A call of encode for the segment just decoded, into an empty buffer. *)
Call_encode ==
    /\ pc = "done" /\ ret = TRUE /\ ~enc.called
    /\ \E type \in EncodeTypes, fwd \in BOOLEAN, seq_flag \in BOOLEAN, inline \in BOOLEAN,
          payLoad \in EncPayloads, size \in OutSizes, fill \in Fills :
          LET e    == [type |-> type, fwd |-> fwd, seq_flag |-> seq_flag,
                       seq_val |-> IF seq_flag THEN 5 ELSE 0, inline |-> inline,
                       payLoad |-> payLoad]
              out0 == [data |-> << >>, size |-> size]
              r    == encode(e, out0, raw, p.dsize, ip, fill)
          IN  enc' = [called |-> TRUE, e |-> e, hi |-> raw, dsize |-> p.dsize,
                      ip |-> ip, out0 |-> out0, out |-> r.out, ret |-> r.ret,
                      proto |-> r.proto, redecoded |-> FALSE]
    /\ pc' = "enc_done"
    /\ UNCHANGED << host, raw, ip, cfg, p, p0, lyr_len, ret, events, read_hi, drop,
                    w, val, ck,
                    upd, mc >>

(* The encoded bytes decoded as the peer would: the addresses exchanged,    *)
(* checksum verification on.                                                *)
Call_decode_encoded ==
    /\ pc = "enc_done" /\ enc.ret /\ ~enc.redecoded
    /\ Begin(Buf(enc.out.data), SwapIp(enc.ip), [Cfg0 EXCEPT !.tcp_checksums = TRUE],
             FreshPacket, "d_len")
    /\ enc' = [enc EXCEPT !.redecoded = TRUE]
    /\ UNCHANGED << host, w, val, ck,
                    upd, mc >>

(* The caller takes the result; the next call starts from a packet reset. *)
(* The contexts of the anomaly tests: the IP id 413 of the NAPTHA test and  *)
(* a destination inside SynToMulticastDstIp.                                *)
NapthaCtx == [Ip4Ctx EXCEPT !.id = 413]
McastCtx == [Ip4Ctx EXCEPT !.dst = << 232, 1, 1, 1 >>]
McastNapthaCtx == [McastCtx EXCEPT !.id = 413]
AnomalyCtxs == {Ip4Ctx, Ip6Ctx, NapthaCtx, McastCtx, McastNapthaCtx}

(* The sequence numbers of the NAPTHA and SHAFT tests as the wire carries   *)
(* them, and each with its four bytes reversed.                             *)
Swap16(x) == 256 * (x % 256) + x \div 256
Swap32(v) == << Swap16(v[2]), Swap16(v[1]) >>
AnomalySeqs ==
    { W32(1), W32(6060842), Swap32(W32(6060842)),
      W32(674711609), Swap32(W32(674711609)) }

FlagBytes == 0 .. 255

(* A call of decode for every flag byte, against the sequence numbers and   *)
(* IP contexts the anomaly tests look at; no options, no payload.           *)
Call_decode_flags ==
    /\ pc = "idle"
    /\ \E f \in FlagBytes, s \in AnomalySeqs, ipctx \in AnomalyCtxs :
          Begin(SenderSegment([BaseHdr EXCEPT !.flags = f, !.seq = s],
                              << >>, 0, ipctx, TRUE),
                ipctx, Cfg0, StalePacket, "d_len")
    /\ UNCHANGED << host, w, val, ck, enc,
                    upd, mc >>

(* Option regions and payloads for the events after the flag tests. *)
AnomalyTails ==
    { [off |-> 5, rest |-> << >>],
      [off |-> 5, rest |-> << 72, 105 >>],
      [off |-> 6, rest |-> << 3, 3, 15, 0 >>],
      [off |-> 6, rest |-> << 3, 3, 15, 0, 72, 105 >>],
      [off |-> 7, rest |-> << 3, 3, 15, 1, 3, 3, 15, 3, 2, 72, 105 >>],
      [off |-> 6, rest |-> << 254, 2, 16, 2 >>],
      [off |-> 6, rest |-> << 13, 2, 0, 0 >>] }
AnomalyFields ==
    { [urp |-> 0, dport |-> 80, sport |-> 40000, seq |-> W32(1)],
      [urp |-> 70, dport |-> 0, sport |-> 40000, seq |-> W32(674711609)],
      [urp |-> 1, dport |-> 80, sport |-> 0, seq |-> W32(674711609)] }

(* A call of decode for every flag byte, on segments that also raise the    *)
(* option, urgent-pointer, SHAFT and port events, with the checksum         *)
(* verified on a segment whose checksum is wrong, or not verified.          *)
Call_decode_anomalies ==
    /\ pc = "idle"
    /\ \E f \in FlagBytes, t \in AnomalyTails, a \in AnomalyFields, cks \in BOOLEAN :
          Begin(SenderSegment([BaseHdr EXCEPT !.flags = f, !.off = t.off,
                                  !.urp = a.urp, !.dport = a.dport,
                                  !.sport = a.sport, !.seq = a.seq],
                              t.rest, 0, McastNapthaCtx, ~cks),
                McastNapthaCtx, [Cfg0 EXCEPT !.tcp_checksums = cks],
                StalePacket, "d_len")
    /\ UNCHANGED << host, w, val, ck, enc,
                    upd, mc >>

(* TcpCodec::update(p, lyr, len) on the header h of the layer: the result,  *)
(* *len after the call, the header after the call, and whether th_sum was   *)
(* written.  *len is a uint32_t; the calls made here stay far below 2^32.   *)
SkipsChecksum_when_cooked(cooked, rebuilt_frag) == cooked
SkipsChecksum(cooked, rebuilt_frag) == ~(~cooked \/ rebuilt_frag)

update_len_with_checksum(h, dsize, cooked, rebuilt_frag, len0, ipctx) ==
    LET skip == SkipsChecksum(cooked, rebuilt_frag)
        len  == IF skip THEN len0 ELSE len0 + hdr_len(h) + dsize
        z    == ZeroField(h)
        ps   == Pseudoheader(ipctx.src, ipctx.dst, IPPROTO_TCP, U16(len))
        sum  == Store16(tcp_cksum(z, len, ps))
    IN  [ret |-> TRUE, len |-> len, wrote |-> ~skip,
         h |-> IF skip THEN h ELSE [z EXCEPT !.bytes[17] = sum[1], !.bytes[18] = sum[2]]]
update(h, dsize, cooked, rebuilt_frag, len0, ipctx) ==
    LET len == len0 + hdr_len(h) + dsize
        z   == ZeroField(h)
        ps  == Pseudoheader(ipctx.src, ipctx.dst, IPPROTO_TCP, U16(len))
        sum == Store16(tcp_cksum(z, len, ps))
    IN  IF SkipsChecksum(cooked, rebuilt_frag)
        THEN [ret |-> TRUE, len |-> len, wrote |-> FALSE, h |-> h]
        ELSE [ret |-> TRUE, len |-> len, wrote |-> TRUE,
              h |-> [z EXCEPT !.bytes[17] = sum[1], !.bytes[18] = sum[2]]]

(* The layers update is called on: a header of 20 or 24 bytes whose th_sum  *)
(* holds 0xBEEF, a payload of dsize bytes, and the len0 bytes *len already  *)
(* counts when the call is made.                                            *)
UpdPayloads == {0, 3, 65535}
UpdLens == {0, 8}
UpdHeader(h, off) ==
    HdrBytes([h EXCEPT !.off = off, !.sum = << 190, 239 >>]) \o Nops(4 * (off - 5))

Call_update ==
    /\ pc = "idle"
    /\ \E h \in HdrVariants, off \in {5, 6}, dsize \in UpdPayloads, len0 \in UpdLens,
          cooked \in BOOLEAN, rebuilt_frag \in BOOLEAN, ipctx \in IpCtxs :
          LET h0 == [bytes |-> UpdHeader(h, off), zpad |-> dsize + len0]
          IN  upd' = [called |-> TRUE, h0 |-> h0, dsize |-> dsize, len0 |-> len0,
                      cooked |-> cooked, rebuilt_frag |-> rebuilt_frag, ip |-> ipctx,
                      r |-> update(h0, dsize, cooked, rebuilt_frag, len0, ipctx)]
    /\ pc' = "upd_done"
    /\ UNCHANGED << host, raw, ip, cfg, p, p0, lyr_len, ret, events, read_hi, drop,
                    w, val, ck, enc, mc >>

(* The process around the codec, as the specification gives it: the start   *)
(* hook runs once, at module load, before any worker decodes; the terminate *)
(* hook runs at module unload, when no worker is inside decode any more.    *)
MayLoad == mc.phase = "start"
WorkersRun == mc.phase = "running"
MayUnload == mc.phase = "running" /\ \A t \in Workers : mc.th[t].pc = "idle"
Reading == { t \in Workers : mc.th[t].pc = "reading" }

(* tcp_codec_ginit(): the one assignment to SynToMulticastDstIp. *)
tcp_codec_ginit ==
    /\ MayLoad
    /\ mc' = [mc EXCEPT !.var = "set", !.writes = @ + 1, !.phase = "running",
                        !.race = @ \/ Reading # {}]
    /\ UNCHANGED << pc, host, raw, ip, cfg, p, p0, lyr_len, ret, events, read_hi, drop,
                    w, val, ck, enc, upd >>

(* tcp_codec_gterm(): sfvar_free of a non-null SynToMulticastDstIp. *)
tcp_codec_gterm ==
    /\ MayUnload
    /\ mc' = [mc EXCEPT !.var = IF @ = "NULL" THEN @ ELSE "freed",
                        !.frees = IF mc.var = "NULL" THEN @ ELSE @ + 1,
                        !.phase = "unloaded",
                        !.race = @ \/ Reading # {}]
    /\ UNCHANGED << pc, host, raw, ip, cfg, p, p0, lyr_len, ret, events, read_hi, drop,
                    w, val, ck, enc, upd >>

(* The segments the workers decode: flag bytes with and without SYN, and    *)
(* destinations at and around the three /8 ranges.                          *)
WorkerFlags == {0, TH_SYN, TH_ACK, TH_SYN + TH_ACK}
WorkerDsts == { << o, 1, 2, 3 >> : o \in {10, 231, 232, 233, 234, 238, 239, 240} }
WorkerHdr(f) == Buf(HdrBytes([BaseHdr EXCEPT !.flags = f]))
WorkerCtx(d) == [Ip4Ctx EXCEPT !.dst = d]

(* Worker t enters decode with a segment of its own and reaches line 276. *)
worker_decode(t) ==
    /\ WorkersRun
    /\ mc.th[t].pc = "idle"
    /\ \E f \in WorkerFlags, d \in WorkerDsts :
          mc' = [mc EXCEPT !.th[t] = [pc |-> IF TCP_ISFLAGSET(f, TH_SYN)
                                             THEN "reading" ELSE "decoded",
                                      flags |-> f, dst |-> d,
                                      events |-> IF TCP_ISFLAGSET(f, TH_SYN) THEN << >>
                                                 ELSE SynEvents(WorkerHdr(f), WorkerCtx(d))]]
    /\ UNCHANGED << pc, host, raw, ip, cfg, p, p0, lyr_len, ret, events, read_hi, drop,
                    w, val, ck, enc, upd >>

(* Line 290 in worker t: sfvar_ip_in reads through SynToMulticastDstIp.  A  *)
(* pointer that is null or freed makes the read undefined: the thread may   *)
(* stop, or go on with either answer.                                       *)
worker_read(t) ==
    /\ mc.th[t].pc = "reading"
    /\ IF mc.var = "set"
       THEN mc' = [mc EXCEPT !.th[t].pc = "decoded",
                             !.th[t].events = SynEvents(WorkerHdr(mc.th[t].flags),
                                                        WorkerCtx(mc.th[t].dst))]
       ELSE \E out \in {"crashed", "in", "out"} :
               mc' = [mc EXCEPT !.th[t].pc = IF out = "crashed" THEN out ELSE "decoded",
                                !.th[t].events =
                                    IF out = "in" THEN << "DECODE_SYN_TO_MULTICAST" >>
                                    ELSE << >>]
    /\ UNCHANGED << pc, host, raw, ip, cfg, p, p0, lyr_len, ret, events, read_hi, drop,
                    w, val, ck, enc, upd >>

(* Worker t leaves decode. *)
worker_return(t) ==
    /\ mc.th[t].pc = "decoded"
    /\ mc' = [mc EXCEPT !.th[t] = IdleWorker]
    /\ UNCHANGED << pc, host, raw, ip, cfg, p, p0, lyr_len, ret, events, read_hi, drop,
                    w, val, ck, enc, upd >>

Return ==
    /\ pc \in {"done", "opt_done", "val_done", "ck_done", "enc_done", "upd_done"}
    /\ Begin(Buf(<< >>), Ip4Ctx, Cfg0, FreshPacket, "idle")
    /\ w' = NoFrame
    /\ val' = NoVal
    /\ ck' = NoCk
    /\ enc' = NoEnc
    /\ upd' = NoUpd
    /\ UNCHANGED << host, mc >>

Init ==
    /\ pc = "idle"
    /\ host \in {"LE", "BE"}
    /\ raw = Buf(<< >>)
    /\ ip = Ip4Ctx
    /\ cfg = Cfg0
    /\ p = FreshPacket
    /\ p0 = FreshPacket
    /\ lyr_len = 0
    /\ ret = FALSE
    /\ events = << >>
    /\ read_hi = 0
    /\ drop = FALSE
    /\ w = NoFrame
    /\ val = NoVal
    /\ ck = NoCk
    /\ enc = NoEnc
    /\ upd = NoUpd
    /\ mc = McLoaded

DecodeSteps ==
    \/ decode_len
    \/ decode_offset
    \/ decode_cksum
    \/ decode_flags
    \/ decode_options
    \/ DecodeTCPOptions_enter
    \/ DecodeTCPOptions_iterate
    \/ DecodeTCPOptions_finish
    \/ decode_tail

Next ==
    \/ Call_decode
    \/ Call_decode_policy
    \/ Call_decode_short
    \/ DecodeSteps
    \/ Return

Spec == Init /\ [][Next]_vars

(* The option walker called on its own. *)
NextOpts ==
    \/ Call_DecodeTCPOptions
    \/ DecodeTCPOptions_enter
    \/ DecodeTCPOptions_iterate
    \/ DecodeTCPOptions_finish
    \/ Return

SpecOpts == Init /\ [][NextOpts]_vars

(* The option validator called on its own. *)
NextValidate ==
    \/ Call_OptLenValidate
    \/ Return

SpecValidate == Init /\ [][NextValidate]_vars

(* The checksum kernel called on its own. *)
NextCksum ==
    \/ Call_in_chksum_tcp
    \/ Return

SpecCksum == Init /\ [][NextCksum]_vars

(* Decode of an inbound segment, encode of a response, decode of it. *)
NextEncode ==
    \/ Call_decode_inbound
    \/ DecodeSteps
    \/ Call_encode
    \/ Call_decode_encoded
    \/ Return

SpecEncode == Init /\ [][NextEncode]_vars

(* The update of a layer on its own. *)
NextUpdate ==
    \/ Call_update
    \/ Return

SpecUpdate == Init /\ [][NextUpdate]_vars

(* The process: the start hook, workers decoding side by side, the          *)
(* terminate hook.                                                          *)
InitWorkers ==
    /\ pc = "idle"
    /\ host \in {"LE", "BE"}
    /\ raw = Buf(<< >>)
    /\ ip = Ip4Ctx
    /\ cfg = Cfg0
    /\ p = FreshPacket
    /\ p0 = FreshPacket
    /\ lyr_len = 0
    /\ ret = FALSE
    /\ events = << >>
    /\ read_hi = 0
    /\ drop = FALSE
    /\ w = NoFrame
    /\ val = NoVal
    /\ ck = NoCk
    /\ enc = NoEnc
    /\ upd = NoUpd
    /\ mc = McUnloaded

NextWorkers ==
    \/ tcp_codec_ginit
    \/ \E t \in Workers : worker_decode(t)
    \/ \E t \in Workers : worker_read(t)
    \/ \E t \in Workers : worker_return(t)
    \/ tcp_codec_gterm

SpecWorkers == InitWorkers /\ [][NextWorkers]_vars

(* Decode of every flag byte. *)
NextFlags ==
    \/ Call_decode_flags
    \/ Call_decode_anomalies
    \/ DecodeSteps
    \/ Return

SpecFlags == Init /\ [][NextFlags]_vars

----------------------------------------------------------------------------
(* Properties of the header decoder *)

DecodeDone == pc = "done"
DataOffset == th_offx2(raw) \div 16

(* C1: for every raw_len in 0..19 decode emits DECODE_TCP_DGRAM_LT_TCPHDR   *)
(* (and nothing else), returns failure with p->tcph cleared, and has read   *)
(* no byte of the raw buffer.                                               *)
C1_ShortSegmentFails ==
    (DecodeDone /\ raw_len < 20) =>
        /\ EventIds(events) = << "DECODE_TCP_DGRAM_LT_TCPHDR" >>
        /\ ret = FALSE
        /\ p.tcph = "NULL"
        /\ read_hi = 0

C1_Witness ==
    /\ DecodeDone /\ raw_len = 19 /\ p0.tcph = "stale"
    /\ Emitted("DECODE_TCP_DGRAM_LT_TCPHDR")

(* C2: for raw_len >= 20, a data offset in 0..4 makes decode emit           *)
(* INVALID_OFFSET and fail; otherwise a data offset with offset*4 > raw_len *)
(* makes it emit LARGE_OFFSET and fail; in both cases p->tcph is cleared    *)
(* and no other event is emitted.                                           *)
C2_OffsetChecks ==
    (DecodeDone /\ raw_len >= 20) =>
        /\ DataOffset <= 4 =>
              /\ EventIds(events) = << "DECODE_TCP_INVALID_OFFSET" >>
              /\ ret = FALSE /\ p.tcph = "NULL"
        /\ (DataOffset >= 5 /\ DataOffset * 4 > raw_len) =>
              /\ EventIds(events) = << "DECODE_TCP_LARGE_OFFSET" >>
              /\ ret = FALSE /\ p.tcph = "NULL"

C2_Witness ==
    /\ DecodeDone /\ raw_len = 24 /\ DataOffset = 7
    /\ Emitted("DECODE_TCP_LARGE_OFFSET")

(* C3 as claimed: on success 20 <= lyr_len = offset*4 <= raw_len, the       *)
(* option count is at most 40, data is raw + lyr_len and dsize is           *)
(* raw_len - offset*4, for every raw_len, those above 65535 included.       *)
C3_SuccessLayout ==
    (DecodeDone /\ ret = TRUE) =>
        /\ 20 <= lyr_len /\ lyr_len = DataOffset * 4 /\ lyr_len <= raw_len
        /\ p.tcp_option_count <= 40
        /\ p.data = lyr_len
        /\ p.dsize = raw_len - DataOffset * 4

(* C4: on every failure return p->tcph is absent and the TCP protocol bit   *)
(* is not set; the bit is set only by a call that returns success.          *)
C4_FailureClearsHeader ==
    /\ (DecodeDone /\ ret = FALSE) =>
          (p.tcph = "NULL" /\ "PROTO_BIT__TCP" \notin p.proto_bits)
    /\ ("PROTO_BIT__TCP" \in p.proto_bits) => (DecodeDone /\ ret = TRUE)

C4_Witness ==
    /\ DecodeDone /\ ret = FALSE /\ raw_len >= 20 /\ events = << >>
    /\ p0.tcph = "stale" /\ p.tcph = "NULL"

(* C5: with checksum verification on, a nonzero computed checksum and       *)
(* DECODE__UNSURE_ENCAP set on the packet, decode fails with p->tcph        *)
(* cleared, no event, PKT_ERR_CKSUM_TCP not set and no drop requested.      *)
ChecksumReached ==
    raw_len >= 20 /\ DataOffset >= 5 /\ DataOffset * 4 <= raw_len /\ cfg.tcp_checksums
C5_UnsureEncapFailsSilently ==
    (DecodeDone /\ ChecksumReached /\ DecodeCsum # 0
        /\ "DECODE__UNSURE_ENCAP" \in p0.decode_flags) =>
        /\ ret = FALSE
        /\ p.tcph = "NULL"
        /\ events = << >>
        /\ "PKT_ERR_CKSUM_TCP" \notin p.error_flags
        /\ drop = FALSE

C5_Witness ==
    /\ DecodeDone /\ ChecksumReached /\ DecodeCsum # 0
    /\ "DECODE__UNSURE_ENCAP" \in p0.decode_flags
    /\ th_flags(raw) = TH_NORESERVED /\ DataOffset = 6
    /\ cfg.inline_mode /\ cfg.tcp_checksum_drops

(* C6 as claimed: a validator error at option k makes the walker emit       *)
(* exactly one of TCPOPT_BADLEN / TCPOPT_TRUNCATED, set the option count to *)
(* k, leave the k records parsed before it as they were parsed, populate no *)
(* record at index k or above, and decode still returns success.            *)
WalkErrors ==
    { i \in 1 .. Len(events) :
        events[i].id \in {"DECODE_TCPOPT_BADLEN", "DECODE_TCPOPT_TRUNCATED"} }
C6_ErrorTruncatesCount ==
    (DecodeDone /\ w.bad_at >= 0) =>
        /\ Cardinality(WalkErrors) = 1
        /\ p.tcp_option_count = w.bad_at
        /\ Len(w.parsed) = w.bad_at
        /\ \A i \in 0 .. (w.bad_at - 1) : p.tcp_options[i] = w.parsed[i + 1]
        /\ \A i \in OptSlots : i >= w.bad_at => p.tcp_options[i] = p0.tcp_options[i]
        /\ ret = TRUE

----------------------------------------------------------------------------
(* Properties of the option walker *)

(* The bytes an option record says its option occupied: 1 for NOP and EOL,  *)
(* the recorded payload length plus the kind and length bytes otherwise.    *)
RecordSkip(r) == IF r.code \in {0, 1} THEN 1 ELSE r.len + 2

RECURSIVE SkipSum(_, _, _)
SkipSum(recs, lo, hi) ==
    IF lo > hi THEN 0
    ELSE IF lo = hi THEN RecordSkip(recs[lo])
    ELSE LET mid == (lo + hi) \div 2
         IN  SkipSum(recs, lo, mid) + SkipSum(recs, mid + 1, hi)

InWalk == pc \in {"opt_loop", "opt_done"} /\ w.o_len <= TCP_OPTLENMAX

C7_Bounded ==
    InWalk =>
        /\ w.iters <= 40
        /\ w.option_ptr - w.start = SkipSum(w.parsed, 1, Len(w.parsed))
        /\ w.option_ptr - w.start = w.skipped
        /\ Len(w.parsed) = w.opt_count

C7_Advance ==
    (pc = "opt_loop" /\ pc' = "opt_loop") => w'.option_ptr >= w.option_ptr + 1

(* C7: over every option region of 0..40 bytes the walker runs at most 40   *)
(* loop iterations, each completed iteration moves the cursor forward by at *)
(* least one byte, and the bytes consumed are the sum of the skips of the   *)
(* options validated (1 for each NOP and EOL).                              *)
C7_WalkerTerminates == []C7_Bounded /\ [][C7_Advance]_vars

C7_Witness ==
    /\ pc = "opt_done" /\ w.o_len = 40 /\ w.iters = 39 /\ w.bad_at = -1
    /\ w.option_ptr = w.start + 40

----------------------------------------------------------------------------
(* Properties of the option validator *)

LengthByte == ByteAt(val.b, val.len_ptr)

(* C8: whenever OptLenValidate returns ok, the skip is the length byte, the *)
(* recorded payload length is the length byte minus 2, and the payload      *)
(* pointer is the byte after the length byte, absent exactly when the       *)
(* length byte is 2; for a fixed-length option the skip is expected_len and *)
(* the payload length expected_len - 2.                                     *)
C8_ValidatorRoundTrip ==
    (pc = "val_done" /\ val.r.code = 0) =>
        /\ val.len_ptr # NULL
        /\ val.r.wrote
        /\ val.r.byte_skip = LengthByte
        /\ val.r.len = LengthByte - 2
        /\ (val.r.data = NULL) <=> (LengthByte = 2)
        /\ LengthByte # 2 => val.r.data = val.len_ptr + 1
        /\ val.expected_len > 1 =>
              /\ val.r.byte_skip = val.expected_len
              /\ val.r.len = val.expected_len - 2

C8_Witness ==
    /\ pc = "val_done" /\ val.r.code = 0
    /\ val.expected_len = 10 /\ LengthByte = 10 /\ val.option_ptr = 3
    /\ val.r.data = 5

----------------------------------------------------------------------------
(* Properties of the checksum kernel *)

CkField == Load16(ck.d, 16)
CkZeroed == Kernel(ck.ip, ZeroField(ck.d))

(* C9 as claimed: the checksum recomputed over a segment is 0 exactly when  *)
(* the segment's checksum field holds the value the kernel computes over    *)
(* the same bytes with the field zeroed.                                    *)
C9_ZeroIffFieldIsKernelValue ==
    pc = "ck_done" => ((ck.r = 0) <=> (CkField = CkZeroed))

(* C9 as amended: the recomputed checksum is 0 exactly when the field holds *)
(* the kernel's value over the bytes with the field zeroed, or that value   *)
(* is 0 and the field holds 0xFFFF (the other representation of zero).      *)
C9_ZeroIffFieldIsKernelValueOrMinusZero ==
    pc = "ck_done" =>
        ((ck.r = 0) <=> (CkField = CkZeroed \/ (CkZeroed = 0 /\ CkField = 65535)))

C9_Witness ==
    /\ pc = "ck_done" /\ ck.r = 0 /\ CkZeroed = 0 /\ CkField = 65535
    /\ ck.dlen = 25

----------------------------------------------------------------------------
(* Properties of the encoder *)

Redecoded == pc = "done" /\ enc.called /\ enc.redecoded

(* C10: a reverse RST encoded from a decodable inbound SYN segment, decoded *)
(* with source and destination address exchanged in the pseudoheader,       *)
(* decodes successfully with the ports of the original swapped, flags       *)
(* exactly RST|ACK and a checksum that verifies to zero, the checksum field *)
(* being the one computed over the original, un-swapped addresses.          *)
C10_ReverseRstRoundTrip ==
    (Redecoded /\ enc.e.type = "ENC_TCP_RST" /\ ~enc.e.fwd
        /\ TCP_ISFLAGSET(th_flags(enc.hi), TH_SYN)) =>
        /\ ip.src = enc.ip.dst /\ ip.dst = enc.ip.src
        /\ ret = TRUE
        /\ p.sp = ntohs(th_dport(enc.hi))
        /\ p.dp = ntohs(th_sport(enc.hi))
        /\ th_flags(raw) = TH_RST + TH_ACK
        /\ DecodeCsum = 0
        /\ "PKT_ERR_CKSUM_TCP" \notin p.error_flags
        /\ th_sum(raw) = tcp_cksum(ZeroField(raw), raw_len,
                                   DecodePseudoheader(enc.ip, raw_len))

C10_Witness ==
    /\ Redecoded /\ enc.e.type = "ENC_TCP_RST" /\ ~enc.e.fwd
    /\ th_flags(enc.hi) = TH_SYN /\ hdr_len(enc.hi) = 24
    /\ ret = TRUE /\ p.sp = 80 /\ p.dp = 40000 /\ p.dsize = 4

(* The encoded header and the original one read off the wire: 16- and       *)
(* 32-bit fields most significant byte first.                               *)
Net16(b, i) == 256 * ByteAt(b, i) + ByteAt(b, i + 1)
Net32(b, i) == << Net16(b, i), Net16(b, i + 2) >>
Encoded == pc = "enc_done" /\ enc.ret
OutHdr == Buf(enc.out.data)
OrigCtl == IF TCP_ISFLAGSET(th_flags(enc.hi), TH_SYN) THEN 1 ELSE 0
OrigNext == Add32(Add32(Net32(enc.hi, 4), enc.dsize), OrigCtl)
SeqDelta == IF enc.e.seq_flag THEN enc.e.seq_val ELSE 0

(* C11: a forward encode copies ports and ack from the original header;    *)
(* seq is orig_seq + dsize + (1 if the original has SYN) modulo 2^32 on a   *)
(* passive interface and orig_seq on an inline one; with the SEQ encode     *)
(* flag the value field of the encode flags is then added, modulo 2^32.     *)
C11_ForwardEncode ==
    (Encoded /\ enc.e.fwd) =>
        /\ Net16(OutHdr, 0) = Net16(enc.hi, 0)
        /\ Net16(OutHdr, 2) = Net16(enc.hi, 2)
        /\ Net32(OutHdr, 8) = Net32(enc.hi, 8)
        /\ Net32(OutHdr, 4) =
              Add32(IF enc.e.inline THEN Net32(enc.hi, 4) ELSE OrigNext, SeqDelta)

C11_Witness ==
    /\ Encoded /\ enc.e.fwd /\ ~enc.e.inline /\ enc.e.seq_flag
    /\ Net32(enc.hi, 4) = << 65535, 65535 >> /\ enc.dsize = 7 /\ OrigCtl = 1
    /\ Net32(OutHdr, 4) = << 0, 12 >>

(* C12 as claimed: a reverse encode exchanges the ports, sets seq to the    *)
(* original ack and ack to original seq + dsize + (1 if the original has    *)
(* SYN) modulo 2^32, whatever the interface mode.                           *)
C12_ReverseEncode ==
    (Encoded /\ ~enc.e.fwd) =>
        /\ Net16(OutHdr, 0) = Net16(enc.hi, 2)
        /\ Net16(OutHdr, 2) = Net16(enc.hi, 0)
        /\ Net32(OutHdr, 4) = Net32(enc.hi, 8)
        /\ Net32(OutHdr, 8) = OrigNext

(* C12 as amended: as above, with seq the original ack plus the value field *)
(* of the encode flags when the SEQ encode flag is set, modulo 2^32.        *)
C12_ReverseEncodeWithSeqFlag ==
    (Encoded /\ ~enc.e.fwd) =>
        /\ Net16(OutHdr, 0) = Net16(enc.hi, 2)
        /\ Net16(OutHdr, 2) = Net16(enc.hi, 0)
        /\ Net32(OutHdr, 4) = Add32(Net32(enc.hi, 8), SeqDelta)
        /\ Net32(OutHdr, 8) = OrigNext

C12_Witness ==
    /\ Encoded /\ ~enc.e.fwd /\ enc.e.inline /\ enc.e.seq_flag
    /\ Net32(enc.hi, 8) = W32(70000) /\ Net32(OutHdr, 4) = W32(70005)
    /\ enc.dsize = 7 /\ Net32(OutHdr, 8) = W32(8)

(* C13 as claimed: on every failure return of encode, whichever grow was    *)
(* refused, the output buffer's contents and length are as before the call. *)
C13_FailureLeavesOutput ==
    (pc = "enc_done" /\ ~enc.ret) => enc.out = enc.out0

-----------------------------------------------------------------------------
(* Properties of the anomaly events *)

(* The position of an event in the order XMAS / NMAP_XMAS, DOS_NAPTHA,      *)
(* SYN_TO_MULTICAST, SYN_RST, SYN_FIN (or NO_SYN_ACK_RST), MUST_ACK, the    *)
(* walker's WSCALE_INVALID, BADLEN / TRUNCATED, EXPERIMENTAL / OBSOLETE /   *)
(* TTCP, then BAD_URP, SHAFT_SYNFLOOD, PORT_ZERO; 0 for the three events of *)
(* the length and offset checks, which end the call.                        *)
EventRank(id) ==
    CASE id \in {"DECODE_TCP_XMAS", "DECODE_TCP_NMAP_XMAS"} -> 1
      [] id = "DECODE_DOS_NAPTHA" -> 2
      [] id = "DECODE_SYN_TO_MULTICAST" -> 3
      [] id = "DECODE_TCP_SYN_RST" -> 4
      [] id \in {"DECODE_TCP_SYN_FIN", "DECODE_TCP_NO_SYN_ACK_RST"} -> 5
      [] id = "DECODE_TCP_MUST_ACK" -> 6
      [] id = "DECODE_TCPOPT_WSCALE_INVALID" -> 7
      [] id \in {"DECODE_TCPOPT_BADLEN", "DECODE_TCPOPT_TRUNCATED"} -> 8
      [] id \in {"DECODE_TCPOPT_EXPERIMENTAL", "DECODE_TCPOPT_OBSOLETE",
                 "DECODE_TCPOPT_TTCP"} -> 9
      [] id = "DECODE_TCP_BAD_URP" -> 10
      [] id = "DECODE_TCP_SHAFT_SYNFLOOD" -> 11
      [] id = "DECODE_TCP_PORT_ZERO" -> 12
      [] OTHER -> 0

(* Within one call the events read in that order: the positions never go    *)
(* back, and only WSCALE_INVALID, raised once per offending option, repeats *)
(* a position.                                                              *)
EventsOrdered ==
    \A i, j \in 1 .. Len(events) :
        i < j =>
            \/ EventRank(events[i].id) < EventRank(events[j].id)
            \/ /\ EventRank(events[i].id) = EventRank(events[j].id)
               /\ events[i].id = "DECODE_TCPOPT_WSCALE_INVALID"
               /\ events[j].id = "DECODE_TCPOPT_WSCALE_INVALID"

(* The checksum stage is behind: the call is past it, and the checksum was  *)
(* not verified, or was zero, or was flagged and let through.               *)
ChecksumBehind ==
    /\ pc \in {"d_flags", "d_opts", "opt_enter", "opt_loop", "d_tail", "done"}
    /\ \/ ~cfg.tcp_checksums
       \/ DecodeCsum = 0
       \/ "PKT_ERR_CKSUM_TCP" \in p.error_flags /\ ~UnsureEncap(p)

(* A step that emits appends to the events of the call; it emits one of the *)
(* ordered events only with the checksum stage behind it.                   *)
EmitsAfterChecksum ==
    Len(events') > Len(events) =>
        /\ SubSeq(events', 1, Len(events)) = events
        /\ (\E i \in (Len(events) + 1) .. Len(events') : EventRank(events'[i].id) > 0)
               => ChecksumBehind

-----------------------------------------------------------------------------
(* Properties of the result of decode *)

(* The three conditions of a success: at least 20 bytes, a data offset of   *)
(* at least five words that fits, and no checksum failure under an unsure   *)
(* encapsulation.                                                           *)
SuccessCondition ==
    /\ raw_len >= 20
    /\ 20 <= DataOffset * 4 /\ DataOffset * 4 <= raw_len
    /\ ~(cfg.tcp_checksums /\ DecodeCsum # 0 /\ "DECODE__UNSURE_ENCAP" \in p0.decode_flags)

(* C15: decode returns success exactly when raw_len >= 20, 20 <=            *)
(* data_offset * 4 <= raw_len, and not (checksum verification on, checksum  *)
(* nonzero, encapsulation unsure): no anomaly event and no option error     *)
(* makes it fail; and every success has set sp and dp to the ports of the   *)
(* header, the option count to the number of options parsed, data to the    *)
(* end of the header, dsize, and the TCP protocol bit.                      *)
C15_SuccessExactly ==
    DecodeDone =>
        /\ ret = SuccessCondition
        /\ ret = TRUE =>
              /\ p.sp = Net16(raw, 0) /\ p.dp = Net16(raw, 2)
              /\ p.tcp_option_count = (IF DataOffset > 5 THEN Len(w.parsed) ELSE 0)
              /\ p.data = DataOffset * 4
              /\ p.dsize = U16(raw_len - DataOffset * 4)
              /\ "PROTO_BIT__TCP" \in p.proto_bits

(* A success that raised anomaly events, hit an option error after one      *)
(* parsed option, and had its wrong checksum let through.                   *)
C15_Witness ==
    /\ DecodeDone /\ ret = TRUE
    /\ w.bad_at = 1 /\ p.tcp_option_count = 1
    /\ Emitted("DECODE_TCP_BAD_URP") /\ Emitted("DECODE_TCPOPT_TRUNCATED")
    /\ "PKT_ERR_CKSUM_TCP" \in p.error_flags
    /\ p.dsize > 0 /\ p.sp = 40000 /\ p.dp = 80

(* The checksum was verified, was nonzero, and the encapsulation was sure.  *)
ChecksumTolerated ==
    /\ ChecksumReached
    /\ DecodeCsum # 0
    /\ "DECODE__UNSURE_ENCAP" \notin p0.decode_flags

(* C16: with checksum verification on, a nonzero checksum and a sure        *)
(* encapsulation, decode sets PKT_ERR_CKSUM_TCP and goes on to success; it  *)
(* requests a drop exactly when, in addition, inline mode and the           *)
(* checksum-drop policy are both on; with verification off it never sets    *)
(* the flag and never requests a drop.                                      *)
C16_ChecksumPolicy ==
    DecodeDone =>
        /\ ChecksumTolerated =>
              "PKT_ERR_CKSUM_TCP" \in p.error_flags /\ ret = TRUE
        /\ drop = (ChecksumTolerated /\ cfg.inline_mode /\ cfg.tcp_checksum_drops)
        /\ ~cfg.tcp_checksums =>
              "PKT_ERR_CKSUM_TCP" \notin p.error_flags /\ drop = FALSE

(* A wrong checksum let through with a drop requested. *)
C16_Witness ==
    /\ DecodeDone /\ ChecksumTolerated /\ ret = TRUE /\ drop = TRUE
    /\ cfg.inline_mode /\ cfg.tcp_checksum_drops

-----------------------------------------------------------------------------
(* Properties of the walker's summary event *)

(* The classes of the source's switch: the cases that set                   *)
(* obsolete_option_found, the case that sets ttcp_found, and the default    *)
(* case, which sets experimental_option_found.                              *)
ParsedKinds == { w.parsed[i].code : i \in 1 .. Len(w.parsed) }
SeenExperimental == \E k \in ParsedKinds : TcpOpt(k) = "default"
SeenObsolete ==
    \E k \in ParsedKinds : TcpOpt(k) \in {"ECHO", "ECHOREPLY", "MD5SIG", "SKEETER", "BUBBA"}
SeenTtcp == \E k \in ParsedKinds : TcpOpt(k) = "CC_ECHO"
SummaryIds ==
    {"DECODE_TCPOPT_EXPERIMENTAL", "DECODE_TCPOPT_OBSOLETE", "DECODE_TCPOPT_TTCP"}
Summaries == SelectSeq(EventIds(events), LAMBDA id : id \in SummaryIds)

(* C17: a walk that ends without a validator error emits at most one of     *)
(* EXPERIMENTAL, OBSOLETE, TTCP: EXPERIMENTAL if an experimental option was *)
(* seen, else OBSOLETE if an obsolete one was, else TTCP if a T/TCP one     *)
(* was, however many of each; a walk that ends with a validator error emits *)
(* none of the three, whatever was seen before the offending option.        *)
C17_OneSummaryEvent ==
    pc = "opt_done" =>
        Summaries = IF w.bad_at >= 0 THEN << >>
                    ELSE IF SeenExperimental THEN << "DECODE_TCPOPT_EXPERIMENTAL" >>
                    ELSE IF SeenObsolete THEN << "DECODE_TCPOPT_OBSOLETE" >>
                    ELSE IF SeenTtcp THEN << "DECODE_TCPOPT_TTCP" >>
                    ELSE << >>

(* A walk that saw all three classes and emitted EXPERIMENTAL alone. *)
C17_Witness ==
    /\ pc = "opt_done" /\ w.bad_at < 0
    /\ SeenExperimental /\ SeenObsolete /\ SeenTtcp
    /\ Summaries = << "DECODE_TCPOPT_EXPERIMENTAL" >>

(* A walk that saw all three classes and then hit an error: no summary. *)
C17_WitnessError ==
    /\ pc = "opt_done" /\ w.bad_at = 3
    /\ SeenExperimental /\ SeenObsolete /\ SeenTtcp
    /\ Summaries = << >>

-----------------------------------------------------------------------------
(* Properties of the flag tests *)

(* A finished call that passed the length, offset and checksum stages. *)
PassedStages == DecodeDone /\ SuccessCondition
Flags == ByteAt(raw, 13)
Has(bit) == (Flags \div bit) % 2 = 1
HasFinPshUrg == Has(TH_FIN) /\ Has(TH_PUSH) /\ Has(TH_URG)
HasSynAckRst == Has(TH_SYN) /\ Has(TH_ACK) /\ Has(TH_RST)

(* C18: for every flag byte of a segment that passes the length and         *)
(* checksum stages, TCP_XMAS is emitted when FIN, PSH, URG and SYN, ACK,    *)
(* RST are all set, TCP_NMAP_XMAS when FIN, PSH, URG are all set and SYN,   *)
(* ACK, RST are not all set with them; never both, and neither unless FIN,  *)
(* PSH and URG are all set.                                                 *)
C18_XmasEvents ==
    PassedStages =>
        /\ Emitted("DECODE_TCP_XMAS") = (HasFinPshUrg /\ HasSynAckRst)
        /\ Emitted("DECODE_TCP_NMAP_XMAS") = (HasFinPshUrg /\ ~HasSynAckRst)
        /\ ~(Emitted("DECODE_TCP_XMAS") /\ Emitted("DECODE_TCP_NMAP_XMAS"))
        /\ (Emitted("DECODE_TCP_XMAS") \/ Emitted("DECODE_TCP_NMAP_XMAS")) => HasFinPshUrg

(* FIN|PSH|URG with SYN and CWR but neither ACK nor RST: NMAP_XMAS. *)
C18_Witness ==
    /\ PassedStages
    /\ Flags = TH_FIN + TH_PUSH + TH_URG + TH_SYN + TH_CWR
    /\ Emitted("DECODE_TCP_NMAP_XMAS") /\ ~Emitted("DECODE_TCP_XMAS")

(* C19: for every one of the 256 flag bytes of a segment that passes the    *)
(* length and checksum stages, SYN_RST is emitted iff SYN and RST are set,  *)
(* SYN_FIN iff SYN and FIN are set, NO_SYN_ACK_RST iff SYN, ACK and RST are *)
(* all clear, MUST_ACK iff one of FIN, PSH, URG is set and ACK is clear.    *)
C19_FlagEvents ==
    PassedStages =>
        /\ Emitted("DECODE_TCP_SYN_RST") = (Has(TH_SYN) /\ Has(TH_RST))
        /\ Emitted("DECODE_TCP_SYN_FIN") = (Has(TH_SYN) /\ Has(TH_FIN))
        /\ Emitted("DECODE_TCP_NO_SYN_ACK_RST")
              = (~Has(TH_SYN) /\ ~Has(TH_ACK) /\ ~Has(TH_RST))
        /\ Emitted("DECODE_TCP_MUST_ACK")
              = ((Has(TH_FIN) \/ Has(TH_PUSH) \/ Has(TH_URG)) /\ ~Has(TH_ACK))

(* A lone PSH with ECE: NO_SYN_ACK_RST and MUST_ACK, neither SYN event. *)
C19_Witness ==
    /\ PassedStages
    /\ Flags = TH_PUSH + TH_ECE
    /\ Emitted("DECODE_TCP_NO_SYN_ACK_RST") /\ Emitted("DECODE_TCP_MUST_ACK")
    /\ ~Emitted("DECODE_TCP_SYN_RST") /\ ~Emitted("DECODE_TCP_SYN_FIN")

(* The sequence number of the segment: the four bytes at offset 4 read in   *)
(* network byte order.                                                      *)
SeqNumber == Net32(raw, 4)

(* C20: DOS_NAPTHA is emitted exactly when the flag byte is pure SYN, the   *)
(* sequence number of the segment is 6060842 and the IP id is 413, the      *)
(* sequence number being compared in the byte order in which the            *)
(* SHAFT_SYNFLOOD test compares it with 674711609.                          *)
C20_NapthaExactly ==
    PassedStages =>
        /\ Emitted("DECODE_DOS_NAPTHA")
              = (Flags = TH_SYN /\ SeqNumber = W32(6060842) /\ ip.id = 413)
        /\ Emitted("DECODE_TCP_SHAFT_SYNFLOOD")
              = (Flags % 64 = TH_SYN /\ SeqNumber = W32(674711609))

(* What the build for a little-endian host does: a pure SYN with sequence   *)
(* number 6060842 and IP id 413 raises no DOS_NAPTHA, and one whose         *)
(* sequence number is 6060842 with its bytes reversed raises it.            *)
C20_LittleEndianMiss ==
    /\ PassedStages /\ host = "LE"
    /\ Flags = TH_SYN /\ SeqNumber = W32(6060842) /\ ip.id = 413
    /\ ~Emitted("DECODE_DOS_NAPTHA")
C20_LittleEndianHit ==
    /\ PassedStages /\ host = "LE"
    /\ Flags = TH_SYN /\ SeqNumber = Swap32(W32(6060842)) /\ ip.id = 413
    /\ Emitted("DECODE_DOS_NAPTHA")
C20_ShaftHit ==
    /\ PassedStages /\ host = "LE"
    /\ Flags = TH_SYN + TH_ECE /\ SeqNumber = W32(674711609)
    /\ Emitted("DECODE_TCP_SHAFT_SYNFLOOD")

-----------------------------------------------------------------------------
(* Properties of the urgent-pointer test *)

WalkerIds ==
    {"DECODE_TCPOPT_WSCALE_INVALID", "DECODE_TCPOPT_BADLEN", "DECODE_TCPOPT_TRUNCATED",
     "DECODE_TCPOPT_EXPERIMENTAL", "DECODE_TCPOPT_OBSOLETE", "DECODE_TCPOPT_TTCP"}
UrgentPointer == Net16(raw, 18)

(* C21: on every successful decode TCP_BAD_URP is emitted iff URG is set    *)
(* and (dsize = 0 or the urgent pointer, read in network order, exceeds     *)
(* dsize), dsize being the payload size the call stored; it comes after     *)
(* every event of the option walk, also when the walk ended in an error.    *)
C21_BadUrp ==
    (DecodeDone /\ ret = TRUE) =>
        /\ Emitted("DECODE_TCP_BAD_URP")
              = (Has(TH_URG) /\ (p.dsize = 0 \/ UrgentPointer > p.dsize))
        /\ \A i, j \in 1 .. Len(events) :
              (events[i].id = "DECODE_TCP_BAD_URP" /\ events[j].id \in WalkerIds) => j < i

(* A walk ended by an error after one option, a payload of eight bytes, and *)
(* an urgent pointer of 70: BAD_URP after the walker's event.               *)
C21_Witness ==
    /\ DecodeDone /\ ret = TRUE
    /\ w.bad_at = 1 /\ WalkErrors # {}
    /\ p.dsize = 8 /\ UrgentPointer = 70
    /\ Emitted("DECODE_TCP_BAD_URP")

-----------------------------------------------------------------------------
(* Properties of single option kinds *)

WalkDone == pc = "opt_done" /\ w.o_len <= TCP_OPTLENMAX
Parsed == 1 .. Len(w.parsed)
(* The parsed WSCALE options whose shift byte exceeds 14. *)
WideShifts ==
    { i \in Parsed : w.parsed[i].code = 3 /\ ByteAt(raw, w.parsed[i].data) > 14 }
WscaleEvents ==
    { i \in 1 .. Len(events) : events[i].id = "DECODE_TCPOPT_WSCALE_INVALID" }

(* C22: a WSCALE option of length 3 whose shift byte exceeds 14 raises      *)
(* TCPOPT_WSCALE_INVALID and is still recorded, the walk going on after it  *)
(* (a lone one gives option count 1); a shift byte of at most 14 raises     *)
(* nothing; a WSCALE option that fails validation never raises it: the      *)
(* events are as many as the recorded WSCALE options with a shift above 14. *)
C22_WscaleInvalid ==
    WalkDone =>
        /\ Cardinality(WscaleEvents) = Cardinality(WideShifts)
        /\ \A i \in Parsed : w.parsed[i].code = 3 =>
              /\ w.parsed[i].len = 1
              /\ p.tcp_options[i - 1] = w.parsed[i]
        /\ (raw.bytes = << 3, 3, 15 >>) =>
              p.tcp_option_count = 1 /\ w.bad_at < 0

(* Two WSCALE options of shift 15 in a row: two events, both recorded. *)
C22_Witness ==
    /\ WalkDone
    /\ raw.bytes = << 3, 3, 15, 3, 3, 15 >>
    /\ Cardinality(WscaleEvents) = 2
    /\ p.tcp_option_count = 2 /\ w.bad_at < 0

(* The option at which a walk ended in an error: its kind byte, whether a   *)
(* length byte follows it inside the region, and that byte.                 *)
WalkFailed == WalkDone /\ w.bad_at >= 0
OffenderKind == ByteAt(raw, w.option_ptr)
OffenderHasLen == w.option_ptr + 1 < w.end_ptr
OffenderLen == ByteAt(raw, w.option_ptr + 1)
LastEvent == events[Len(events)].id

(* C23: a SACK option whose length byte is 2 and an AUTH option whose       *)
(* length byte is below 4 end the walk with TCPOPT_BADLEN and the count of  *)
(* the options before them, and are never among the parsed options; a SACK  *)
(* or AUTH kind byte that is the last byte of the region ends it with       *)
(* TCPOPT_TRUNCATED.                                                        *)
C23_SackAuthRejected ==
    /\ WalkDone =>
          \A i \in Parsed :
              /\ w.parsed[i].code = 5 => w.parsed[i].len >= 1 /\ w.parsed[i].data # NULL
              /\ w.parsed[i].code = 29 => w.parsed[i].len >= 2
    /\ (WalkFailed /\ OffenderKind \in {5, 29}) =>
          /\ p.tcp_option_count = w.bad_at /\ Len(w.parsed) = w.bad_at
          /\ Cardinality(WalkErrors) = 1
          /\ (OffenderHasLen /\ OffenderKind = 5 /\ OffenderLen = 2)
                => LastEvent = "DECODE_TCPOPT_BADLEN"
          /\ (OffenderHasLen /\ OffenderKind = 29 /\ OffenderLen < 4)
                => LastEvent = "DECODE_TCPOPT_BADLEN"
          /\ ~OffenderHasLen => LastEvent = "DECODE_TCPOPT_TRUNCATED"

(* A NOP, then an AUTH option of length 3 with its byte inside the region:  *)
(* BADLEN, count 1.                                                         *)
C23_Witness ==
    /\ WalkFailed
    /\ raw.bytes = << 1, 29, 3, 0 >>
    /\ LastEvent = "DECODE_TCPOPT_BADLEN"
    /\ p.tcp_option_count = 1

(* The offset of the i-th parsed option: the skips of those before it. *)
OptionAt(i) == w.start + SkipSum(w.parsed, 1, i - 1)

(* EOL and NOP are recorded with length 0 and no data; a parsed EOL is the  *)
(* last option parsed, it is counted, nothing beyond it was read or         *)
(* recorded and no validator error was raised; after a parsed NOP the walk  *)
(* went on to the next byte whenever there was one.                         *)
EolEndsWalk ==
    InWalk =>
        \A i \in Parsed :
            /\ w.parsed[i].code \in {0, 1} =>
                  /\ w.parsed[i].len = 0 /\ w.parsed[i].data = NULL
                  /\ p.tcp_options[i - 1] = w.parsed[i]
            /\ w.parsed[i].code = 0 =>
                  /\ i = Len(w.parsed) /\ w.done /\ w.bad_at < 0
                  /\ read_hi = OptionAt(i) + 1
                  /\ WalkErrors = {}
                  /\ \A k \in OptSlots : k >= i => p.tcp_options[k] = p0.tcp_options[k]
                  /\ pc = "opt_done" => p.tcp_option_count = i
            /\ (w.parsed[i].code = 1 /\ pc = "opt_done"
                   /\ OptionAt(i) + 1 < w.end_ptr /\ i < TCP_OPTLENMAX) =>
                  \/ i < Len(w.parsed) /\ OptionAt(i + 1) = OptionAt(i) + 1
                  \/ w.bad_at = i /\ w.option_ptr = OptionAt(i) + 1

(* Once EOL has set done, the only step left returns: no option is parsed   *)
(* and no byte is read.                                                     *)
NoStepAfterEol ==
    (pc = "opt_loop" /\ w.done) =>
        /\ pc' = w.ret_pc
        /\ w'.parsed = w.parsed /\ w'.option_ptr = w.option_ptr
        /\ read_hi' = read_hi
        /\ p'.tcp_options = p.tcp_options

(* C24: an EOL option is recorded as a zero-length option with no data and  *)
(* ends the walk: no byte after the first EOL is examined or recorded, the  *)
(* count includes the EOL, and no BADLEN / TRUNCATED arises from the bytes  *)
(* after it; a NOP is recorded the same way and the walk continues at the   *)
(* next byte.                                                               *)
C24_EolTerminates == []EolEndsWalk /\ [][NoStepAfterEol]_vars

(* NOP, EOL, then a WSCALE option of length 2 that is never looked at. *)
C24_Witness ==
    /\ pc = "opt_done"
    /\ raw.bytes = << 1, 0, 3, 2 >>
    /\ p.tcp_option_count = 2 /\ read_hi = 2 /\ events = << >>

-----------------------------------------------------------------------------
(* The validator against its table *)

Validated == pc = "val_done"
LenPresent == val.len_ptr # NULL

(* The parts of the table that hold of every call: a missing length byte    *)
(* gives TRUNC; a fixed expected_len >= 2 gives ok exactly when the length  *)
(* byte is present, option_ptr + expected_len <= end and the length byte    *)
(* equals expected_len; a variable length gives ok exactly when the length  *)
(* byte is present, is at least 2 and option_ptr + length <= end; a result  *)
(* other than ok leaves the skip 0 and the option record unwritten.         *)
ValidatorTable ==
    /\ ~LenPresent => val.r.code = OPT_TRUNC
    /\ val.expected_len >= 2 =>
          ((val.r.code = 0) <=> /\ LenPresent
                                /\ val.option_ptr + val.expected_len <= val.end
                                /\ LengthByte = val.expected_len)
    /\ val.expected_len < 0 =>
          ((val.r.code = 0) <=> /\ LenPresent
                                /\ LengthByte >= 2
                                /\ val.option_ptr + LengthByte <= val.end)
    /\ val.r.code \in {0, OPT_BADLEN, OPT_TRUNC}
    /\ val.r.code # 0 => val.r.byte_skip = 0 /\ ~val.r.wrote

(* C25 as stated: the table, with expected_len 0 or 1 giving BAD_LEN on     *)
(* every call.                                                              *)
C25_ValidatorTable ==
    Validated =>
        /\ ValidatorTable
        /\ val.expected_len \in {0, 1} => val.r.code = OPT_BADLEN

(* C25: the table, with expected_len 0 or 1 giving BAD_LEN on every call    *)
(* that has a length byte (without one the result is TRUNC).                *)
C25_ValidatorTableLenPresent ==
    Validated =>
        /\ ValidatorTable
        /\ (val.expected_len \in {0, 1} /\ LenPresent) => val.r.code = OPT_BADLEN

(* expected_len 0 on an option whose length byte 2 is present and fits. *)
C25_Witness ==
    /\ Validated /\ val.expected_len = 0 /\ LenPresent /\ LengthByte = 2
    /\ val.option_ptr + 2 <= val.end
    /\ val.r.code = OPT_BADLEN /\ val.r.byte_skip = 0 /\ ~val.r.wrote

-----------------------------------------------------------------------------
(* The fixed fields of an encoded header *)

(* C26: every successfully encoded header has data offset 5, reserved bits  *)
(* zero and urgent pointer 0, whatever the data offset of the original, and *)
(* flags and window fixed by the encode type alone: FIN gives ACK|FIN and   *)
(* window 0, PUSH gives ACK|PUSH and window 65535, any other type RST|ACK   *)
(* and window 0, with or without a payload attached.                        *)
C26_FixedFields ==
    Encoded =>
        /\ ByteAt(OutHdr, 12) = 5 * 16
        /\ Net16(OutHdr, 18) = 0
        /\ ByteAt(OutHdr, 13) =
              (CASE enc.e.type = "ENC_TCP_FIN" -> TH_ACK + TH_FIN
                 [] enc.e.type = "ENC_TCP_PUSH" -> TH_ACK + TH_PUSH
                 [] OTHER -> TH_RST + TH_ACK)
        /\ Net16(OutHdr, 14) = (IF enc.e.type = "ENC_TCP_PUSH" THEN 65535 ELSE 0)

(* A FIN encode without payload for an original of data offset 15. *)
C26_Witness ==
    /\ Encoded
    /\ enc.e.type = "ENC_TCP_FIN" /\ enc.e.payLoad = << >>
    /\ ByteAt(enc.hi, 12) = 15 * 16
    /\ ByteAt(OutHdr, 12) = 5 * 16 /\ ByteAt(OutHdr, 13) = TH_ACK + TH_FIN

-----------------------------------------------------------------------------
(* Properties of update *)

Updated == pc = "upd_done"
UpdPseudo ==
    Pseudoheader(upd.ip.src, upd.ip.dst, IPPROTO_TCP, U16(upd.r.len))
SameButField(a, b) == ZeroField(a) = ZeroField(b)

(* C27: update leaves th_sum untouched exactly when the packet was cooked   *)
(* and is not a rebuilt fragment; otherwise it writes the checksum of the   *)
(* header with the field zeroed, over the advanced length, so that the      *)
(* layer verifies; either way it returns ok and has advanced *len by the    *)
(* header length plus dsize, and no other byte of the layer changes.        *)
C27_UpdateChecksum ==
    Updated =>
        /\ upd.r.ret = TRUE
        /\ upd.r.len = upd.len0 + 4 * (ByteAt(upd.h0, 12) \div 16) + upd.dsize
        /\ upd.r.wrote = ~(upd.cooked /\ ~upd.rebuilt_frag)
        /\ SameButField(upd.r.h, upd.h0)
        /\ ~upd.r.wrote => upd.r.h = upd.h0
        /\ upd.r.wrote => tcp_cksum(upd.r.h, upd.r.len, UpdPseudo) = 0

(* A cooked packet that is not a rebuilt fragment: *len advanced by 24 + 3, *)
(* the stale th_sum still in place.                                         *)
C27_Witness ==
    /\ Updated /\ upd.cooked /\ ~upd.rebuilt_frag
    /\ upd.len0 = 8 /\ upd.dsize = 3 /\ upd.r.len = 35
    /\ ByteAt(upd.r.h, 16) = 190 /\ ByteAt(upd.r.h, 17) = 239

-----------------------------------------------------------------------------
(* What the event sink sees on the fatal paths *)

FatalIds ==
    {"DECODE_TCP_DGRAM_LT_TCPHDR", "DECODE_TCP_INVALID_OFFSET", "DECODE_TCP_LARGE_OFFSET"}

(* C28: on each fatal path of decode that emits an event (LT_TCPHDR,        *)
(* INVALID_OFFSET, LARGE_OFFSET) p->tcph is cleared before the event is     *)
(* emitted: the event sink sees p->tcph absent at emission.                 *)
C28_ClearedBeforeEvent ==
    \A i \in 1 .. Len(events) :
        events[i].id \in FatalIds => events[i].tcph = "NULL"

(* What the code does: INVALID_OFFSET and LARGE_OFFSET are emitted with     *)
(* p->tcph on the segment, LT_TCPHDR with p->tcph as the caller left it,    *)
(* and p->tcph is cleared by the time decode has returned.                  *)
C28_SinkSeesHeader ==
    /\ DecodeDone /\ ret = FALSE /\ p.tcph = "NULL"
    /\ events # << >> /\ events[1].id = "DECODE_TCP_LARGE_OFFSET"
    /\ events[1].tcph = "raw"
C28_SinkSeesStaleHeader ==
    /\ DecodeDone /\ ret = FALSE /\ p.tcph = "NULL"
    /\ events # << >> /\ events[1].id = "DECODE_TCP_DGRAM_LT_TCPHDR"
    /\ events[1].tcph = "stale"

-----------------------------------------------------------------------------
(* The multicast variable under concurrent workers *)

WorkerEmitted(t) ==
    \E i \in 1 .. Len(mc.th[t].events) : mc.th[t].events[i] = "DECODE_SYN_TO_MULTICAST"
WorkerSyn(t) == (mc.th[t].flags \div TH_SYN) % 2 = 1
WorkerDstMulticast(t) == mc.th[t].dst[1] \in {232, 233, 239}

(* The variable is written at most once and freed at most once, no write    *)
(* or free ever met a read in progress, no worker stopped on a bad pointer, *)
(* a worker inside decode finds the variable set, and a worker that has     *)
(* decoded emitted SYN_TO_MULTICAST iff its segment has SYN and a           *)
(* destination in 232/8, 233/8 or 239/8.                                    *)
SharedReadOnly ==
    /\ mc.writes <= 1 /\ mc.frees <= 1
    /\ ~mc.race
    /\ \A t \in Workers :
          /\ mc.th[t].pc # "crashed"
          /\ mc.th[t].pc \in {"reading", "decoded"} => mc.var = "set"
          /\ mc.th[t].pc = "decoded" =>
                (WorkerEmitted(t) <=> (WorkerSyn(t) /\ WorkerDstMulticast(t)))

(* The variable changes in the start hook, from null to set, and in the     *)
(* terminate hook, from set to freed, and in no other step.                 *)
WrittenByHooksOnly ==
    mc'.var # mc.var =>
        \/ mc.phase = "start" /\ mc'.phase = "running"
              /\ mc.var = "NULL" /\ mc'.var = "set"
        \/ mc.phase = "running" /\ mc'.phase = "unloaded"
              /\ mc.var = "set" /\ mc'.var = "freed"

(* C29: with several workers decoding concurrently the multicast variable   *)
(* is written only by the start hook, once, and freed only by the terminate *)
(* hook; every decode between the two only reads it, so no interleaving     *)
(* has a write meet a read; and SYN_TO_MULTICAST is emitted iff SYN is set  *)
(* and the destination lies in 232.0.0.0/8, 233.0.0.0/8 or 239.0.0.0/8.     *)
C29_MulticastVariable == []SharedReadOnly /\ [][WrittenByHooksOnly]_vars

(* Two workers inside decode at once, one still reading the variable, the   *)
(* other having emitted SYN_TO_MULTICAST for a destination in 239/8.        *)
C29_Witness ==
    /\ mc.th[1].pc = "reading"
    /\ mc.th[2].pc = "decoded" /\ mc.th[2].dst[1] = 239 /\ WorkerEmitted(2)
    /\ mc.var = "set" /\ mc.writes = 1

-----------------------------------------------------------------------------
(* What a failed decode leaves of the packet record *)

(* C30: on every failure return decode has changed nothing of the packet    *)
(* record but the TCP header reference: sp, dp, the option array and count, *)
(* data, dsize, the protocol bits and the error flags are as they were      *)
(* before the call.                                                         *)
C30_FailureFrame ==
    (DecodeDone /\ ret = FALSE) =>
        /\ p.sp = p0.sp /\ p.dp = p0.dp
        /\ p.tcp_options = p0.tcp_options
        /\ p.tcp_option_count = p0.tcp_option_count
        /\ p.data = p0.data /\ p.dsize = p0.dsize
        /\ p.proto_bits = p0.proto_bits
        /\ p.error_flags = p0.error_flags
        /\ [p EXCEPT !.tcph = p0.tcph] = p0

(* A checksum failure under an unsure encapsulation, on a record that still *)
(* holds an earlier segment's decode.                                       *)
C30_Witness ==
    /\ DecodeDone /\ ret = FALSE
    /\ raw_len >= 20 /\ events = << >>
    /\ p0 = Unsure(StalePacket, TRUE)
    /\ p.tcph = "NULL" /\ p.sp = StalePacket.sp /\ p.tcp_option_count = StalePacket.tcp_option_count

-----------------------------------------------------------------------------
(* The walker's length guard as decode calls it *)

WalkerEntered == pc = "opt_enter"
AfterOptions == pc \in {"opt_enter", "opt_loop", "d_tail"}
GuardNotTaken == WalkerEntered => p'.tcph = p.tcph /\ pc' = "opt_loop"

(* C31: decode enters the option walker only with a region of 1..40 bytes   *)
(* that starts right after the 20 fixed bytes; the walker's o_len guard is  *)
(* never taken (its step leaves the header reference alone and goes on to   *)
(* the loop); the header reference is set wherever decode dereferences it   *)
(* after the option stage, the decode never stops on a null reference, and  *)
(* every success return leaves the reference set.                           *)
C31_WalkerLengthGuard ==
    /\ [](/\ WalkerEntered => /\ w.o_len \in 1 .. TCP_OPTLENMAX
                              /\ w.start = TCP_HEADER_LEN
                              /\ w.o_len = hdr_len(raw) - TCP_HEADER_LEN
          /\ AfterOptions => p.tcph = "raw"
          /\ pc # "crashed"
          /\ (DecodeDone /\ ret = TRUE) => p.tcph = "raw")
    /\ [][GuardNotTaken]_vars

(* A data offset of 15 over a segment that holds all 60 header bytes: the   *)
(* walker was entered with the longest region, 40 bytes, walked all of it   *)
(* and decode returned success with the reference set.                      *)
C31_Witness ==
    /\ DecodeDone /\ ret = TRUE /\ p.tcph = "raw"
    /\ hdr_len(raw) = 60 /\ w.o_len = TCP_OPTLENMAX
    /\ w.iters = TCP_OPTLENMAX /\ p.tcp_option_count = TCP_OPTLENMAX

-----------------------------------------------------------------------------
(* Memory safety of the option walk *)

Walking == pc \in {"opt_loop", "opt_done"} /\ w.o_len <= TCP_OPTLENMAX
SliceInside(o) ==
    IF o.data = NULL THEN o.len = 0
    ELSE w.start <= o.data /\ o.len >= 1 /\ o.data + o.len <= w.end_ptr
(* The loop body was entered: it wrote tcp_options[opt_count]. *)
IndexedSlot == (pc = "opt_loop" /\ w'.iters = w.iters + 1) => w.opt_count \in OptSlots

(* C32: during a walk over a region of at most 40 bytes the cursor stays    *)
(* between the start and the end of the region, nothing at or beyond the    *)
(* end of the region has been read (kind, length byte or WSCALE shift       *)
(* byte), the option count is at most 40 and every loop body writes an      *)
(* array slot below 40, and every option recorded has either no data and    *)
(* length 0 or a data slice [data, data+len) inside the region.             *)
C32_WalkInBounds ==
    /\ [](Walking =>
            /\ w.end_ptr = w.start + w.o_len
            /\ w.start <= w.option_ptr /\ w.option_ptr <= w.end_ptr
            /\ read_hi <= w.end_ptr
            /\ w.opt_count <= TCP_OPTLENMAX
            /\ \A i \in Parsed : SliceInside(w.parsed[i])
            /\ WalkDone =>
                 \A k \in 0 .. (p.tcp_option_count - 1) : SliceInside(p.tcp_options[k]))
    /\ [][IndexedSlot]_vars

(* A WSCALE option that fills its region: the shift byte read is the last   *)
(* byte of the region, the data slice ends where the region ends and the    *)
(* cursor stops on the end.                                                 *)
C32_Witness ==
    /\ WalkDone /\ raw.bytes = << 3, 3, 15 >>
    /\ read_hi = 3 /\ w.option_ptr = 3 /\ w.end_ptr = 3
    /\ p.tcp_option_count = 1
    /\ p.tcp_options[0] = [code |-> 3, len |-> 1, data |-> 2]

(* Forty one-byte options: the last array slot, 39, is written and the     *)
(* count reaches 40.                                                        *)
C32_WitnessFullArray ==
    /\ WalkDone /\ w.o_len = TCP_OPTLENMAX /\ w.option_ptr = w.end_ptr
    /\ p.tcp_option_count = TCP_OPTLENMAX /\ read_hi = TCP_OPTLENMAX
    /\ p.tcp_options[TCP_OPTLENMAX - 1].code = 1

====
